---- MODULE Spec2Model ----
(***************************************************************************)
(* LanForge session-continuity engine: room model (RoomManager),           *)
(* coordinator (LanForgeServer), snapshot helpers and the peer engine      *)
(* (PeerNode) with its host-migration state machine.                       *)
(***************************************************************************)
EXTENDS Integers, Sequences, FiniteSets, TLC

VARIABLES
  servers,     \* device -> LanForgeServer process state (roomManager, connectedClients)
  peers,       \* device -> PeerNode process state
  nextClient,  \* createUniqueId("client-") draws so far
  nextRoom,    \* createUniqueId("room-") draws so far
  outbox,      \* frames written to sockets by the last coordinator step
  sent,        \* per room: every ChatMessage appendChat has accepted, in call order
  now,         \* Date.now()
  elect        \* harness of the election and snapshot specifications: input and results

vars == <<servers, peers, nextClient, nextRoom, outbox, sent, now, elect>>

----------------------------------------------------------------------------
(* Bounds                                                                   *)

MaxClients == 2      \* connections the coordinator accepts (coordinator specifications)
MaxRooms == 1        \* rooms created in the coordinator specification
MaxCodeRooms == 2    \* rooms created in the join-code specification
MaxHosts == 1        \* processes started in host mode (system specification)
MaxConns == 4        \* connections accepted over all coordinators (system specification)
MaxJoins == 3        \* joinOrder values one coordinator hands out
MaxChat == 1         \* chats accepted per room outside the chat-buffer specification
MaxSent == 52        \* chats accepted per room in the chat-buffer specification
MaxNow == 1          \* clock ticks in the chat-buffer specification
MaxElect == 3        \* member-list length in the election specification
MaxOrder == 1        \* largest joinOrder in the election specification
MaxMembers == 2      \* member-list length in the snapshot specification
MaxEntries == 1      \* chat-buffer length in the snapshot specification
MaxDrops == 1        \* operations refused by send in the send specification
MaxDatagrams == 2    \* datagrams sent in the announcer specification
MaxBeats == 8        \* clock steps of half a heartbeat interval in the heartbeat specification

----------------------------------------------------------------------------
(* Program constants                                                        *)

JOIN_CODE_LENGTH == 6
CHAT_BUFFER_LIMIT == 50
\* Server.ts: heartbeat configuration, in milliseconds
HEARTBEAT_INTERVAL_MS == 5000
CLIENT_TIMEOUT_MS == 15000

chars == <<"A","B","C","D","E","F","G","H","I","J","K","L","M","N","O","P","Q","R","S",
           "T","U","V","W","X","Y","Z","0","1","2","3","4","5","6","7","8","9">>

None == "none"          \* undefined / null for string-valued fields
NoCode == <<>>          \* undefined for a join code (a sequence of characters)

Devices == {"dev-A", "dev-B", "dev-C"}
Texts == {"hi"}

\* charCodeAt(i) of every deviceId the model uses
CharCodes(d) ==
  CASE d = "dev-A" -> <<100, 101, 118, 45, 65>>
    [] d = "dev-B" -> <<100, 101, 118, 45, 66>>
    [] d = "dev-C" -> <<100, 101, 118, 45, 67>>
    [] d = "Aa" -> <<65, 97>>
    [] d = "BB" -> <<66, 66>>
    [] d = "device-4242" -> <<100, 101, 118, 105, 99, 101, 45, 52, 50, 52, 50>>

ClientIdOf(n) == <<"client-1", "client-2", "client-3", "client-4", "client-5", "client-6">>[n]
RoomIdOf(n) == <<"room-1", "room-2", "room-3", "room-4">>[n]

----------------------------------------------------------------------------
(* Maps (JavaScript Map / Record)                                           *)

EmptyMap == [k \in {} |-> None]
MapPut(f, k, v) == [x \in (DOMAIN f) \cup {k} |-> IF x = k THEN v ELSE f[x]]
MapDel(f, k) == [x \in (DOMAIN f) \ {k} |-> f[x]]

Min(S) == CHOOSE x \in S : \A y \in S : x <= y

----------------------------------------------------------------------------
(* hash: 32-bit string hash, kept as <<high 16 bits, low 16 bits>>          *)

\* one loop iteration: hash = (hash << 5) - hash + charCode; hash |= 0
HashStep(h, c) ==
  LET lo == 31 * h[2] + c
      hi == 31 * h[1] + (lo \div 65536)
  IN <<hi % 65536, lo % 65536>>

RECURSIVE HashLoop(_, _, _)
HashLoop(h, cs, i) ==
  IF i > Len(cs) THEN h ELSE HashLoop(HashStep(h, cs[i]), cs, i + 1)

\* Math.abs of the int32 whose bits are h
Int32Abs(h) ==
  IF h[1] < 32768 THEN h
  ELSE IF h[2] = 0 THEN <<65536 - h[1], 0>>
  ELSE <<65535 - h[1], 65536 - h[2]>>

\* Math.abs dropped: the raw int32, ordered as a signed number
Int32Raw(h) == IF h[1] < 32768 THEN h ELSE <<h[1] - 65536, h[2]>>

\* sign of x - y for two split 32-bit values
HashDiff(x, y) ==
  IF x[1] # y[1] THEN (IF x[1] < y[1] THEN -1 ELSE 1)
  ELSE IF x[2] # y[2] THEN (IF x[2] < y[2] THEN -1 ELSE 1)
  ELSE 0

hash_noabs(input) == Int32Raw(HashLoop(<<0, 0>>, CharCodes(input), 1))

\* RoomManager.hash
hash(input) == Int32Abs(HashLoop(<<0, 0>>, CharCodes(input), 1))

\* PeerNode.hash
PeerNode_hash(input) == Int32Abs(HashLoop(<<0, 0>>, CharCodes(input), 1))

----------------------------------------------------------------------------
(* Array.prototype.sort with a comparator (stable)                          *)

\* comparator of RoomManager.electNewHost
ElectCompare(a, b) ==
  IF a.joinOrder # b.joinOrder THEN a.joinOrder - b.joinOrder
  ELSE HashDiff(hash(a.deviceId), hash(b.deviceId))

\* comparator of PeerNode.runLeaderElection
PeerElectCompare(a, b) ==
  IF a.joinOrder # b.joinOrder THEN a.joinOrder - b.joinOrder
  ELSE HashDiff(PeerNode_hash(a.deviceId), PeerNode_hash(b.deviceId))

\* the comparator a sort runs with: that of the peer or of the coordinator
Compare(cmp, a, b) ==
  IF cmp = "PeerNode" THEN PeerElectCompare(a, b) ELSE ElectCompare(a, b)

\* position at which x goes into the sorted sequence s: after every element
\* that does not compare greater than x
RECURSIVE InsertPos(_, _, _, _)
InsertPos(cmp, s, x, i) ==
  IF i > Len(s) THEN i
  ELSE IF Compare(cmp, s[i], x) > 0 THEN i
  ELSE InsertPos(cmp, s, x, i + 1)

InsertAt(s, x, i) == SubSeq(s, 1, i - 1) \o <<x>> \o SubSeq(s, i, Len(s))

RECURSIVE SortFrom(_, _, _, _)
SortFrom(cmp, s, acc, i) ==
  IF i > Len(s) THEN acc
  ELSE SortFrom(cmp, s, InsertAt(acc, s[i], InsertPos(cmp, acc, s[i], 1)), i + 1)

sort(s, cmp) == SortFrom(cmp, s, <<>>, 1)

----------------------------------------------------------------------------
(* RoomManager: rooms (a Map, kept in insertion order), joinCodeToRoomId,   *)
(* globalJoinCounter                                                        *)

NewRoomManager == [rooms |-> <<>>, joinCodeToRoomId |-> EmptyMap, globalJoinCounter |-> 0]

\* rooms.get(roomId): index of the room in the map, 0 when absent
RoomIndex(rm, roomId) ==
  LET S == {i \in 1..Len(rm.rooms) : rm.rooms[i].roomId = roomId}
  IN IF S = {} THEN 0 ELSE Min(S)

hasRoom(rm, roomId) == RoomIndex(rm, roomId) # 0

getRoom(rm, roomId) == rm.rooms[RoomIndex(rm, roomId)]

\* rooms.set(roomId, room): replaces in place, appends a new key
setRoom(rm, room) ==
  LET i == RoomIndex(rm, room.roomId)
  IN IF i = 0 THEN [rm EXCEPT !.rooms = Append(@, room)]
     ELSE [rm EXCEPT !.rooms[i] = room]

hasMember(room, deviceId) == \E i \in 1..Len(room.members) : room.members[i].deviceId = deviceId

hasName(room, name) == \E i \in 1..Len(room.members) : room.members[i].name = name

findRoomByDevice(rm, deviceId) ==
  LET S == {i \in 1..Len(rm.rooms) : hasMember(rm.rooms[i], deviceId)}
  IN IF S = {} THEN None ELSE rm.rooms[Min(S)].roomId

destroyRoom_keepcode(rm, room) ==
  [rm EXCEPT !.rooms = SelectSeq(@, LAMBDA r : r.roomId # room.roomId)]

destroyRoom(rm, room) ==
  [rm EXCEPT !.rooms = SelectSeq(@, LAMBDA r : r.roomId # room.roomId),
             !.joinCodeToRoomId = MapDel(@, room.joinCode)]

\* one candidate code: chars[randomBytes(1)[0] % chars.length], six times
CodeOf(bytes) == [i \in 1..JOIN_CODE_LENGTH |-> chars[(bytes[i] % Len(chars)) + 1]]

\* the do-while loop over the random stream: the first candidate that is not
\* in joinCodeToRoomId
RECURSIVE generateJoinCodeLoop(_, _, _)
generateJoinCodeLoop(table, stream, i) ==
  IF CodeOf(stream[i]) \in DOMAIN table
  THEN generateJoinCodeLoop(table, stream, i + 1)
  ELSE CodeOf(stream[i])

generateJoinCode_nocheck(rm, stream) == CodeOf(stream[1])

generateJoinCode(rm, stream) == generateJoinCodeLoop(rm.joinCodeToRoomId, stream, 1)

\* the loop ends within the modelled part of the random stream
generateJoinCodeEnds(rm, stream) ==
  \E i \in 1..Len(stream) : CodeOf(stream[i]) \notin DOMAIN rm.joinCodeToRoomId

createRoom(rm, roomId, hostDeviceId, hostClientId, hostName, stream) ==
  LET joinCode == generateJoinCode(rm, stream)
      host == [deviceId |-> hostDeviceId, clientId |-> hostClientId, name |-> hostName,
               joinOrder |-> rm.globalJoinCounter, role |-> "host"]
      room == [roomId |-> roomId, joinCode |-> joinCode, hostDeviceId |-> hostDeviceId,
               members |-> <<host>>, chat |-> <<>>]
      rm1 == [rm EXCEPT !.globalJoinCounter = @ + 1]
      rm2 == setRoom(rm1, room)
  IN [rm2 EXCEPT !.joinCodeToRoomId = MapPut(@, joinCode, roomId)]

joinRoomByCode_nonamecheck(rm, joinCode, deviceId, clientId, name) ==
  IF joinCode \notin DOMAIN rm.joinCodeToRoomId
  THEN [err |-> "INVALID_JOIN_CODE", rm |-> rm, roomId |-> None]
  ELSE LET roomId == rm.joinCodeToRoomId[joinCode]
           room == getRoom(rm, roomId)
           member == [deviceId |-> deviceId, clientId |-> clientId, name |-> name,
                      joinOrder |-> rm.globalJoinCounter, role |-> "member"]
           rm1 == [rm EXCEPT !.globalJoinCounter = @ + 1]
       IN [err |-> None,
           rm |-> setRoom(rm1, [room EXCEPT !.members = Append(@, member)]),
           roomId |-> roomId]

joinRoomByCode_countfirst(rm, joinCode, deviceId, clientId, name) ==
  IF joinCode \notin DOMAIN rm.joinCodeToRoomId
  THEN [err |-> "INVALID_JOIN_CODE", rm |-> rm, roomId |-> None]
  ELSE LET roomId == rm.joinCodeToRoomId[joinCode]
           room == getRoom(rm, roomId)
           member == [deviceId |-> deviceId, clientId |-> clientId, name |-> name,
                      joinOrder |-> rm.globalJoinCounter, role |-> "member"]
           rm1 == [rm EXCEPT !.globalJoinCounter = @ + 1]
       IN IF hasName(room, name)
          THEN [err |-> "NAME_CONFLICT", rm |-> rm1, roomId |-> None]
          ELSE [err |-> None,
                rm |-> setRoom(rm1, [room EXCEPT !.members = Append(@, member)]),
                roomId |-> roomId]

joinRoomByCode(rm, joinCode, deviceId, clientId, name) ==
  IF joinCode \notin DOMAIN rm.joinCodeToRoomId
  THEN [err |-> "INVALID_JOIN_CODE", rm |-> rm, roomId |-> None]
  ELSE LET roomId == rm.joinCodeToRoomId[joinCode]
           room == getRoom(rm, roomId)
       IN IF hasName(room, name)
          THEN [err |-> "NAME_CONFLICT", rm |-> rm, roomId |-> None]
          ELSE LET member == [deviceId |-> deviceId, clientId |-> clientId, name |-> name,
                              joinOrder |-> rm.globalJoinCounter, role |-> "member"]
                   rm1 == [rm EXCEPT !.globalJoinCounter = @ + 1]
               IN [err |-> None,
                   rm |-> setRoom(rm1, [room EXCEPT !.members = Append(@, member)]),
                   roomId |-> roomId]

\* RoomManager.electNewHost: sorted[0].deviceId
electNewHost(rm, roomId) ==
  sort(getRoom(rm, roomId).members, "RoomManager")[1].deviceId

leaveRoom(rm, deviceId) ==
  LET roomId == findRoomByDevice(rm, deviceId)
  IN IF roomId = None THEN [rm |-> rm, roomId |-> None]
     ELSE LET room == getRoom(rm, roomId)
              room1 == [room EXCEPT !.members = SelectSeq(@, LAMBDA m : m.deviceId # deviceId)]
          IN IF Len(room1.members) = 0
             THEN [rm |-> destroyRoom(rm, room1), roomId |-> None]
             ELSE IF room1.hostDeviceId = deviceId
             THEN LET rm1 == setRoom(rm, room1)
                      newHostId == electNewHost(rm1, roomId)
                      room2 == [room1 EXCEPT
                                  !.hostDeviceId = newHostId,
                                  !.members = [i \in 1..Len(room1.members) |->
                                     [room1.members[i] EXCEPT !.role =
                                        IF room1.members[i].deviceId = newHostId
                                        THEN "host" ELSE "member"]]]
                  IN [rm |-> setRoom(rm1, room2), roomId |-> roomId]
             ELSE [rm |-> setRoom(rm, room1), roomId |-> roomId]

kick_nohostcheck(rm, hostDeviceId, targetDeviceId) ==
  LET roomId == findRoomByDevice(rm, hostDeviceId)
  IN IF roomId = None THEN [err |-> "ROOM_NOT_FOUND", rm |-> rm, roomId |-> None]
     ELSE LET room == getRoom(rm, roomId)
          IN [err |-> None,
              rm |-> setRoom(rm, [room EXCEPT !.members =
                        SelectSeq(@, LAMBDA m : m.deviceId # targetDeviceId)]),
              roomId |-> roomId]

kick(rm, hostDeviceId, targetDeviceId) ==
  LET roomId == findRoomByDevice(rm, hostDeviceId)
  IN IF roomId = None THEN [err |-> "ROOM_NOT_FOUND", rm |-> rm, roomId |-> None]
     ELSE LET room == getRoom(rm, roomId)
          IN IF room.hostDeviceId # hostDeviceId
             THEN [err |-> "NOT_HOST", rm |-> rm, roomId |-> None]
             ELSE [err |-> None,
                   rm |-> setRoom(rm, [room EXCEPT !.members =
                             SelectSeq(@, LAMBDA m : m.deviceId # targetDeviceId)]),
                   roomId |-> roomId]

\* members.find(m => m.deviceId === deviceId): index of the first match
FirstMember(room, deviceId) ==
  Min({i \in 1..Len(room.members) : room.members[i].deviceId = deviceId})

changeName_nocheck(rm, deviceId, newName) ==
  LET roomId == findRoomByDevice(rm, deviceId)
  IN IF roomId = None THEN [err |-> "ROOM_NOT_FOUND", rm |-> rm]
     ELSE LET room == getRoom(rm, roomId)
          IN [err |-> None,
              rm |-> setRoom(rm, [room EXCEPT
                        !.members[FirstMember(room, deviceId)].name = newName])]

changeName(rm, deviceId, newName) ==
  LET roomId == findRoomByDevice(rm, deviceId)
  IN IF roomId = None THEN [err |-> "ROOM_NOT_FOUND", rm |-> rm]
     ELSE LET room == getRoom(rm, roomId)
          IN IF hasName(room, newName) THEN [err |-> "NAME_CONFLICT", rm |-> rm]
             ELSE [err |-> None,
                   rm |-> setRoom(rm, [room EXCEPT
                             !.members[FirstMember(room, deviceId)].name = newName])]

\* a room object that carries a chat array
hasChat(room) == "chat" \in DOMAIN room

appendChat_pop(rm, roomId, fromDeviceId, text, timestamp) ==
  IF ~hasRoom(rm, roomId) THEN [err |-> "ROOM_NOT_FOUND", rm |-> rm, msg |-> None]
  ELSE LET room == getRoom(rm, roomId)
       IN IF ~hasMember(room, fromDeviceId)
          THEN [err |-> "NOT_IN_ROOM", rm |-> rm, msg |-> None]
          ELSE IF ~hasChat(room) THEN [err |-> "TypeError", rm |-> rm, msg |-> None]
          ELSE LET msg == [fromDeviceId |-> fromDeviceId,
                           fromName |-> room.members[FirstMember(room, fromDeviceId)].name,
                           text |-> text, timestamp |-> timestamp]
                   pushed == Append(room.chat, msg)
                   chat1 == IF Len(pushed) > CHAT_BUFFER_LIMIT
                            THEN SubSeq(pushed, 1, Len(pushed) - 1) ELSE pushed
               IN [err |-> None, rm |-> setRoom(rm, [room EXCEPT !.chat = chat1]), msg |-> msg]

\* err "TypeError": room.chat.push on a room object without a chat array
appendChat(rm, roomId, fromDeviceId, text, timestamp) ==
  IF ~hasRoom(rm, roomId) THEN [err |-> "ROOM_NOT_FOUND", rm |-> rm, msg |-> None]
  ELSE LET room == getRoom(rm, roomId)
       IN IF ~hasMember(room, fromDeviceId)
          THEN [err |-> "NOT_IN_ROOM", rm |-> rm, msg |-> None]
          ELSE IF ~hasChat(room) THEN [err |-> "TypeError", rm |-> rm, msg |-> None]
          ELSE LET msg == [fromDeviceId |-> fromDeviceId,
                           fromName |-> room.members[FirstMember(room, fromDeviceId)].name,
                           text |-> text, timestamp |-> timestamp]
                   pushed == Append(room.chat, msg)
                   chat1 == IF Len(pushed) > CHAT_BUFFER_LIMIT THEN Tail(pushed) ELSE pushed
               IN [err |-> None, rm |-> setRoom(rm, [room EXCEPT !.chat = chat1]), msg |-> msg]

----------------------------------------------------------------------------
(* Snapshots                                                                *)

NullSnapshot == [null |-> TRUE]

\* the Record built by the loop over room.members: a later member with the
\* same deviceId overwrites an earlier one
IdentityTable(members, field) ==
  [d \in {members[i].deviceId : i \in 1..Len(members)} |->
     LET last == CHOOSE i \in 1..Len(members) :
                   /\ members[i].deviceId = d
                   /\ \A j \in 1..Len(members) : members[j].deviceId = d => j <= i
     IN IF field = "clientId" THEN members[last].clientId ELSE members[last].name]

SnapshotRoom(room) ==
  [roomId |-> room.roomId, joinCode |-> room.joinCode,
   hostDeviceId |-> room.hostDeviceId, members |-> room.members]

SnapshotIdentity(room) ==
  [deviceIdToClientId |-> IdentityTable(room.members, "clientId"),
   deviceIdToName |-> IdentityTable(room.members, "name")]

\* states/makeSnapshot.ts, for a room the manager holds
makeSnapshot(rm, roomId) ==
  LET room == getRoom(rm, roomId)
  IN [room |-> SnapshotRoom(room), chat |-> room.chat, identity |-> SnapshotIdentity(room)]

\* RoomManager.makeSnapshot as LanForgeServer.broadcastRoomState uses it: null
\* for an unknown room, else a copy of what the room object holds
RoomManager_makeSnapshot(rm, roomId) ==
  IF ~hasRoom(rm, roomId) THEN NullSnapshot
  ELSE LET room == getRoom(rm, roomId)
       IN IF hasChat(room) THEN makeSnapshot(rm, roomId)
          ELSE [room |-> SnapshotRoom(room), identity |-> SnapshotIdentity(room)]

\* RoomManager.restoreRoomFromSnapshot: the room object goes into the room
\* table and its join code into the join-code table
restoreRoomFromSnapshot(rm, room) ==
  [setRoom(rm, room) EXCEPT !.joinCodeToRoomId = MapPut(@, room.joinCode, room.roomId)]

restoreFromSnapshot_nochat(snapshot, rm) ==
  restoreRoomFromSnapshot(rm,
    [roomId |-> snapshot.room.roomId, joinCode |-> snapshot.room.joinCode,
     hostDeviceId |-> snapshot.room.hostDeviceId,
     members |-> snapshot.room.members, chat |-> <<>>])

\* states/restoreFromSnapshot.ts
restoreFromSnapshot(snapshot, rm) ==
  restoreRoomFromSnapshot(rm,
    [roomId |-> snapshot.room.roomId, joinCode |-> snapshot.room.joinCode,
     hostDeviceId |-> snapshot.room.hostDeviceId,
     members |-> snapshot.room.members, chat |-> snapshot.chat])

----------------------------------------------------------------------------
(* LanForgeServer                                                           *)

ServerDown == [up |-> FALSE, roomManager |-> NewRoomManager, connectedClients |-> EmptyMap]

\* new LanForgeServer(); start(port)
NewServer == [up |-> TRUE, roomManager |-> NewRoomManager, connectedClients |-> EmptyMap]

Frame(to, type, payload) == [to |-> to, type |-> type, payload |-> payload]

sendErrorMessage(c, reason) == <<Frame(c, "ERROR", [reason |-> reason])>>

RECURSIVE MemberFrames(_, _, _, _, _)
MemberFrames(s, members, type, payload, i) ==
  IF i > Len(members) THEN <<>>
  ELSE (IF members[i].clientId \in DOMAIN s.connectedClients
        THEN <<Frame(members[i].clientId, type, payload)>> ELSE <<>>)
       \o MemberFrames(s, members, type, payload, i + 1)

broadcastToRoom_all(s, roomId, type, payload) ==
  MemberFrames(s, [i \in 1..6 |-> [clientId |-> ClientIdOf(i)]], type, payload, 1)

broadcastToRoom(s, roomId, type, payload) ==
  IF hasRoom(s.roomManager, roomId)
  THEN MemberFrames(s, getRoom(s.roomManager, roomId).members, type, payload, 1)
  ELSE <<>>

broadcastRoomState(s, roomId) ==
  LET snapshot == RoomManager_makeSnapshot(s.roomManager, roomId)
  IN IF snapshot = NullSnapshot THEN <<>>
     ELSE broadcastToRoom(s, roomId, "STATE_SNAPSHOT", [snapshot |-> snapshot])

\* websocketServer.on("connection")
OnConnection(s, c) ==
  [s EXCEPT !.connectedClients = MapPut(@, c, [deviceId |-> None, name |-> None])]

Identified(s, c) == s.connectedClients[c].deviceId # None /\ s.connectedClients[c].name # None

\* every handler yields the server afterwards, the frames it wrote, and
\* whether it threw out of the message listener
Result(s, out) == [srv |-> s, out |-> out, threw |-> FALSE]

HandleHello(s, c, deviceId, name) ==
  Result([s EXCEPT !.connectedClients[c] = [deviceId |-> deviceId, name |-> name]],
         <<Frame(c, "WELCOME", [clientId |-> c])>>)

HandleCreateRoom(s, c, roomId, stream) ==
  IF ~Identified(s, c) THEN Result(s, sendErrorMessage(c, "Must send HELLO first"))
  ELSE LET client == s.connectedClients[c]
           s1 == [s EXCEPT !.roomManager =
                    createRoom(@, roomId, client.deviceId, c, client.name, stream)]
       IN Result(s1, broadcastRoomState(s1, roomId))

HandleJoinRoom_broadcast(s, c, joinCode) ==
  IF ~Identified(s, c) THEN Result(s, sendErrorMessage(c, "Must send HELLO first"))
  ELSE LET client == s.connectedClients[c]
           r == joinRoomByCode(s.roomManager, joinCode, client.deviceId, c, client.name)
       IN IF r.err # None
          THEN Result(s, sendErrorMessage(c, r.err)
                         \o (IF joinCode \in DOMAIN s.roomManager.joinCodeToRoomId
                             THEN broadcastRoomState(s, s.roomManager.joinCodeToRoomId[joinCode])
                             ELSE <<>>))
          ELSE LET s1 == [s EXCEPT !.roomManager = r.rm]
               IN Result(s1, broadcastRoomState(s1, r.roomId))

HandleJoinRoom(s, c, joinCode) ==
  IF ~Identified(s, c) THEN Result(s, sendErrorMessage(c, "Must send HELLO first"))
  ELSE LET client == s.connectedClients[c]
           r == joinRoomByCode(s.roomManager, joinCode, client.deviceId, c, client.name)
       IN IF r.err # None THEN Result(s, sendErrorMessage(c, r.err))
          ELSE LET s1 == [s EXCEPT !.roomManager = r.rm]
               IN Result(s1, broadcastRoomState(s1, r.roomId))

HandleChat_nohello(s, c, text, timestamp) ==
  LET deviceId == s.connectedClients[c].deviceId
      roomId == findRoomByDevice(s.roomManager, deviceId)
  IN IF roomId = None THEN Result(s, sendErrorMessage(c, "Not in a room"))
     ELSE LET r == appendChat(s.roomManager, roomId, deviceId, text, timestamp)
          IN IF r.err # None THEN [srv |-> s, out |-> <<>>, threw |-> TRUE]
             ELSE LET s1 == [s EXCEPT !.roomManager = r.rm]
                  IN Result(s1, broadcastToRoom(s1, roomId, "CHAT", r.msg)
                                \o broadcastRoomState(s1, roomId))

HandleChat(s, c, text, timestamp) ==
  IF s.connectedClients[c].deviceId = None
  THEN Result(s, sendErrorMessage(c, "Must send HELLO first"))
  ELSE LET deviceId == s.connectedClients[c].deviceId
           roomId == findRoomByDevice(s.roomManager, deviceId)
       IN IF roomId = None THEN Result(s, sendErrorMessage(c, "Not in a room"))
          ELSE LET r == appendChat(s.roomManager, roomId, deviceId, text, timestamp)
               IN IF r.err # None THEN [srv |-> s, out |-> <<>>, threw |-> TRUE]
                  ELSE LET s1 == [s EXCEPT !.roomManager = r.rm]
                       IN Result(s1, broadcastToRoom(s1, roomId, "CHAT", r.msg)
                                     \o broadcastRoomState(s1, roomId))

HandleKick(s, c, targetDeviceId) ==
  IF s.connectedClients[c].deviceId = None
  THEN Result(s, sendErrorMessage(c, "Must send HELLO first"))
  ELSE LET r == kick(s.roomManager, s.connectedClients[c].deviceId, targetDeviceId)
       IN IF r.err # None THEN Result(s, sendErrorMessage(c, r.err))
          ELSE LET s1 == [s EXCEPT !.roomManager = r.rm]
               IN Result(s1, broadcastRoomState(s1, r.roomId))

\* socket.on("close"): leaveRoom, a snapshot to the surviving room (the closed
\* socket itself takes no frame: ClientConnection.sendMessage skips a socket
\* that is not OPEN), then connectedClients.delete
HandleClose(s, c) ==
  LET deviceId == s.connectedClients[c].deviceId
      Left(r) ==
        LET s1 == [s EXCEPT !.roomManager = r.rm, !.connectedClients = MapDel(@, c)]
        IN Result(s1, IF r.roomId # None THEN broadcastRoomState(s1, r.roomId) ELSE <<>>)
  IN Left(IF deviceId # None THEN leaveRoom(s.roomManager, deviceId)
          ELSE [rm |-> s.roomManager, roomId |-> None])

\* the close listener of a socket the coordinator terminated: the listener
\* holds the ClientConnection object, whose deviceId it reads
OnTerminated(s, c, deviceId) ==
  LET r == IF deviceId # None THEN leaveRoom(s.roomManager, deviceId)
           ELSE [rm |-> s.roomManager, roomId |-> None]
      s1 == [s EXCEPT !.roomManager = r.rm, !.connectedClients = MapDel(@, c)]
  IN Result(s1, IF r.roomId # None THEN broadcastRoomState(s1, r.roomId) ELSE <<>>)

\* one pass of the interval callback over connectedClients (in insertion
\* order, connections 1..n): the frames it writes
RECURSIVE HeartbeatFrames(_, _, _, _, _)
HeartbeatFrames(s, lastActiveTime, currentTime, i, n) ==
  IF i > n THEN <<>>
  ELSE LET c == ClientIdOf(i)
       IN (IF c \in DOMAIN s.connectedClients
              /\ ~(currentTime - lastActiveTime[c] > CLIENT_TIMEOUT_MS)
           THEN <<Frame(c, "PING", [timestamp |-> currentTime])>> ELSE <<>>)
          \o HeartbeatFrames(s, lastActiveTime, currentTime, i + 1, n)

startHeartbeatLoop_atleast(s, lastActiveTime, currentTime, n) ==
  LET timedOut == {c \in DOMAIN s.connectedClients :
                     currentTime - lastActiveTime[c] >= CLIENT_TIMEOUT_MS}
  IN [srv |-> [s EXCEPT !.connectedClients =
                 [c \in DOMAIN @ \ timedOut |-> @[c]]],
      out |-> SelectSeq(HeartbeatFrames(s, lastActiveTime, currentTime, 1, n),
                        LAMBDA f : f.to \notin timedOut),
      terminated |-> [c \in timedOut |-> s.connectedClients[c].deviceId]]

\* the interval callback of startHeartbeatLoop at time currentTime: the
\* coordinator afterwards, the PING frames, and the connections whose socket
\* was terminated (with the deviceId their ClientConnection carries)
startHeartbeatLoop(s, lastActiveTime, currentTime, n) ==
  LET timedOut == {c \in DOMAIN s.connectedClients :
                     currentTime - lastActiveTime[c] > CLIENT_TIMEOUT_MS}
  IN [srv |-> [s EXCEPT !.connectedClients =
                 [c \in DOMAIN @ \ timedOut |-> @[c]]],
      out |-> HeartbeatFrames(s, lastActiveTime, currentTime, 1, n),
      terminated |-> [c \in timedOut |-> s.connectedClients[c].deviceId]]

----------------------------------------------------------------------------
(* udpAnnounce / udpDiscovery (module state of one process)                 *)

NoAnnounce == [socket |-> FALSE, message |-> [none |-> TRUE]]
NoDiscovery == [socket |-> FALSE, discoveredHosts |-> {}]

startAnnounce_restart(announce, roomId, joinCode, hostId, serverPort) ==
  [socket |-> TRUE,
   message |-> [roomId |-> roomId, joinCode |-> joinCode,
                hostId |-> hostId, port |-> serverPort]]

startAnnounce(announce, roomId, joinCode, hostId, serverPort) ==
  IF announce.socket THEN announce
  ELSE [socket |-> TRUE,
        message |-> [roomId |-> roomId, joinCode |-> joinCode,
                     hostId |-> hostId, port |-> serverPort]]

stopAnnounce(announce) == NoAnnounce

\* the setInterval callback of startAnnounce: the datagrams one tick sends
announceTick(announce) == IF announce.socket THEN <<announce.message>> ELSE <<>>

startDiscovery(discovery) ==
  IF discovery.socket THEN discovery ELSE [discovery EXCEPT !.socket = TRUE]

stopDiscovery(discovery) == [socket |-> FALSE, discoveredHosts |-> {}]

----------------------------------------------------------------------------
(* PeerNode                                                                 *)

NoWs == [to |-> None, conn |-> None, readyState |-> "NONE"]

\* configuration of the process on each device (LANFORGE_CLIENT_NAME / argv)
ClientNameOf(d) ==
  CASE d = "dev-A" -> "Alice" [] d = "dev-B" -> "Bob" [] d = "dev-C" -> "alice"

\* new PeerNode(config); status, phase, lastLoss and hostStarts are bookkeeping
NewPeer(d) ==
  [status |-> "off", clientName |-> ClientNameOf(d),
   ws |-> NoWs, closePending |-> FALSE,
   serverUrl |-> None, clientId |-> None, roomId |-> None, joinCode |-> NoCode,
   hostClientId |-> None,
   latestSnapshot |-> NullSnapshot, isHandlingServerLoss |-> FALSE,
   migrationTimeout |-> 0,
   discovery |-> NoDiscovery, announce |-> NoAnnounce,
   phase |-> "Off", lastLoss |-> [lost |-> None, elected |-> None], hostStarts |-> 0]

startUdpAnnounce(peer) ==
  IF peer.roomId = None \/ peer.joinCode = NoCode \/ peer.hostClientId = None THEN peer
  ELSE [peer EXCEPT !.announce =
          startAnnounce(@, peer.roomId, peer.joinCode, peer.hostClientId, 8080)]

handleStateSnapshot_merge(peer, d, snapshot) ==
  LET table == snapshot.identity.deviceIdToClientId
      host == snapshot.room.hostDeviceId
      p1 == [peer EXCEPT !.latestSnapshot = IF @ = NullSnapshot THEN snapshot ELSE @,
                         !.roomId = IF @ = None THEN snapshot.room.roomId ELSE @,
                         !.joinCode = IF @ = NoCode THEN snapshot.room.joinCode ELSE @,
                         !.hostClientId = IF @ # None THEN @
                                          ELSE IF host \in DOMAIN table THEN table[host]
                                          ELSE None]
  IN IF host = d THEN startUdpAnnounce(p1) ELSE p1

handleStateSnapshot(peer, d, snapshot) ==
  LET table == snapshot.identity.deviceIdToClientId
      host == snapshot.room.hostDeviceId
      p1 == [peer EXCEPT !.latestSnapshot = snapshot,
                         !.roomId = snapshot.room.roomId,
                         !.joinCode = snapshot.room.joinCode,
                         !.hostClientId = IF host \in DOMAIN table THEN table[host] ELSE None]
  IN IF host = d THEN startUdpAnnounce(p1) ELSE p1

handleServerMessage(peer, d, msg) ==
  CASE msg.type = "WELCOME" -> [peer EXCEPT !.clientId = msg.payload.clientId]
    [] msg.type = "STATE_SNAPSHOT" -> handleStateSnapshot(peer, d, msg.payload.snapshot)
    [] msg.type = "KICKED" -> [peer EXCEPT !.ws.readyState = "CLOSED", !.closePending = TRUE]
    [] OTHER -> peer

\* the peer whose open socket is the other end of connection c
Receives(peer, c) == peer.status = "running" /\ peer.ws.conn = c /\ peer.ws.readyState = "OPEN"

RECURSIVE Deliver(_, _, _)
Deliver(ps, out, i) ==
  IF i > Len(out) THEN ps
  ELSE Deliver([d \in DOMAIN ps |->
                  IF Receives(ps[d], out[i].to) THEN handleServerMessage(ps[d], d, out[i])
                  ELSE ps[d]],
               out, i + 1)

\* PeerNode.runLeaderElection: sorted[0].deviceId, null without a snapshot
runLeaderElection(peer) ==
  IF peer.latestSnapshot = NullSnapshot THEN None
  ELSE sort(peer.latestSnapshot.room.members, "PeerNode")[1].deviceId

\* new WebSocket(serverUrl) up to the WELCOME: the coordinator at h accepts
\* the socket as connection c, the open handler sends HELLO, the coordinator
\* answers; a coordinator that is not listening closes the socket instead
connectToServer(srvs, prs, d, h, c) ==
  IF srvs[h].up
  THEN LET r == HandleHello(OnConnection(srvs[h], c), c, d, prs[d].clientName)
           p1 == [prs[d] EXCEPT !.ws = [to |-> h, conn |-> c, readyState |-> "OPEN"],
                                !.phase = "Connected"]
       IN [servers |-> [srvs EXCEPT ![h] = r.srv],
           peers |-> Deliver([prs EXCEPT ![d] = p1], r.out, 1),
           out |-> r.out]
  ELSE [servers |-> srvs,
        peers |-> [prs EXCEPT ![d].ws = [to |-> h, conn |-> None, readyState |-> "CLOSED"],
                              ![d].closePending = TRUE],
        out |-> <<>>]

\* the process on device h exits: its coordinator stops listening, the
\* coordinator its peer was connected to sees that socket close, and every
\* peer connected to h gets a close event
ProcessDies(srvs, prs, h) ==
  LET dead == prs[h]
      g == dead.ws.to
      closes == /\ dead.status = "running" /\ dead.ws.readyState = "OPEN" /\ g # h
                /\ srvs[g].up /\ dead.ws.conn \in DOMAIN srvs[g].connectedClients
      prs1 == [x \in DOMAIN prs |->
                 IF x = h
                 THEN [prs[x] EXCEPT !.status = "dead", !.ws.readyState = "CLOSED",
                                     !.closePending = FALSE, !.migrationTimeout = 0,
                                     !.discovery = NoDiscovery, !.announce = NoAnnounce,
                                     !.phase = "Exited"]
                 ELSE IF prs[x].ws.to = h /\ prs[x].ws.readyState = "OPEN"
                 THEN [prs[x] EXCEPT !.ws.readyState = "CLOSED", !.closePending = TRUE]
                 ELSE prs[x]]
      Closed(r) ==
        [servers |-> [x \in DOMAIN srvs |->
                        IF x = h THEN ServerDown ELSE IF closes /\ x = g THEN r.srv ELSE srvs[x]],
         peers |-> Deliver(prs1, r.out, 1),
         out |-> r.out]
  IN Closed(IF closes THEN HandleClose(srvs[g], dead.ws.conn) ELSE Result(ServerDown, <<>>))

becomeHostAfterMigration_keepflag(srvs, prs, d) ==
  IF srvs[d].up THEN ProcessDies(srvs, prs, d)
  ELSE LET snapshot == prs[d].latestSnapshot
           server == [NewServer EXCEPT !.roomManager =
                        restoreRoomFromSnapshot(@, snapshot.room)]
           p1 == [startUdpAnnounce(prs[d]) EXCEPT
                    !.hostStarts = @ + 1, !.phase = "BecomingHost"]
       IN [servers |-> [srvs EXCEPT ![d] = server],
           peers |-> [prs EXCEPT ![d] = p1],
           out |-> <<>>]

\* PeerNode.becomeHostAfterMigration (the caller has a snapshot): a second
\* listener on the port this process already holds ends the process
becomeHostAfterMigration(srvs, prs, d) ==
  IF srvs[d].up THEN ProcessDies(srvs, prs, d)
  ELSE LET snapshot == prs[d].latestSnapshot
           server == [NewServer EXCEPT !.roomManager =
                        restoreRoomFromSnapshot(@, snapshot.room)]
           p1 == [startUdpAnnounce(prs[d]) EXCEPT
                    !.isHandlingServerLoss = FALSE,
                    !.hostStarts = @ + 1, !.phase = "BecomingHost"]
       IN [servers |-> [srvs EXCEPT ![d] = server],
           peers |-> [prs EXCEPT ![d] = p1],
           out |-> <<>>]

\* PeerNode.waitForHostMigration: arm a 10 s timer (migrationTimeout counts
\* the armed timers), start discovery
waitForHostMigration(srvs, prs, d) ==
  [servers |-> srvs,
   peers |-> [prs EXCEPT ![d].migrationTimeout = @ + 1,
                         ![d].discovery = startDiscovery(@),
                         ![d].phase = "AwaitingHost"],
   out |-> <<>>]

onServerDisconnected_noguard(srvs, prs, d) ==
  LET electedDeviceId == runLeaderElection(prs[d])
      prs1 == [prs EXCEPT ![d].isHandlingServerLoss = TRUE,
                          ![d].lastLoss = [lost |-> prs[d].ws.to,
                                           elected |-> electedDeviceId],
                          ![d].phase = "ServerLost"]
  IN IF electedDeviceId = None \/ prs[d].clientId = None
     THEN [servers |-> srvs, peers |-> [prs1 EXCEPT ![d].phase = "Dead"], out |-> <<>>]
     ELSE IF electedDeviceId = d THEN becomeHostAfterMigration(srvs, prs1, d)
     ELSE waitForHostMigration(srvs, prs1, d)

onServerDisconnected_nocheck(srvs, prs, d) ==
  IF prs[d].isHandlingServerLoss THEN [servers |-> srvs, peers |-> prs, out |-> <<>>]
  ELSE LET electedDeviceId == runLeaderElection(prs[d])
           prs1 == [prs EXCEPT ![d].isHandlingServerLoss = TRUE,
                               ![d].lastLoss = [lost |-> prs[d].ws.to,
                                                elected |-> electedDeviceId],
                               ![d].phase = "ServerLost"]
       IN IF electedDeviceId = d THEN becomeHostAfterMigration(srvs, prs1, d)
          ELSE waitForHostMigration(srvs, prs1, d)

\* PeerNode.onServerDisconnected
onServerDisconnected(srvs, prs, d) ==
  IF prs[d].isHandlingServerLoss THEN [servers |-> srvs, peers |-> prs, out |-> <<>>]
  ELSE LET electedDeviceId == runLeaderElection(prs[d])
           prs1 == [prs EXCEPT ![d].isHandlingServerLoss = TRUE,
                               ![d].lastLoss = [lost |-> prs[d].ws.to,
                                                elected |-> electedDeviceId],
                               ![d].phase = "ServerLost"]
       IN IF electedDeviceId = None \/ prs[d].clientId = None
          THEN [servers |-> srvs, peers |-> [prs1 EXCEPT ![d].phase = "Dead"], out |-> <<>>]
          ELSE IF electedDeviceId = d THEN becomeHostAfterMigration(srvs, prs1, d)
          ELSE waitForHostMigration(srvs, prs1, d)

onDiscovered_anyroom(srvs, prs, d, ip, host, c) ==
  LET prs1 == [prs EXCEPT ![d].migrationTimeout = IF @ > 0 THEN @ - 1 ELSE 0,
                          ![d].discovery = stopDiscovery(@),
                          ![d].serverUrl = ip]
      r == connectToServer(srvs, prs1, d, ip, c)
  IN [r EXCEPT !.peers[d].isHandlingServerLoss = FALSE]

onDiscovered_notimer(srvs, prs, d, ip, host, c) ==
  IF prs[d].roomId # None /\ host.roomId # prs[d].roomId
  THEN [servers |-> srvs, peers |-> prs, out |-> <<>>]
  ELSE LET prs1 == [prs EXCEPT ![d].discovery = stopDiscovery(@),
                               ![d].serverUrl = ip]
           r == connectToServer(srvs, prs1, d, ip, c)
       IN [r EXCEPT !.peers[d].isHandlingServerLoss = FALSE]

\* the discovery callback of waitForHostMigration, for a host at address ip
onDiscovered(srvs, prs, d, ip, host, c) ==
  IF prs[d].roomId # None /\ host.roomId # prs[d].roomId
  THEN [servers |-> srvs, peers |-> prs, out |-> <<>>]
  ELSE LET prs1 == [prs EXCEPT ![d].migrationTimeout = IF @ > 0 THEN @ - 1 ELSE 0,
                               ![d].discovery = stopDiscovery(@),
                               ![d].serverUrl = ip]
           r == connectToServer(srvs, prs1, d, ip, c)
       IN [r EXCEPT !.peers[d].isHandlingServerLoss = FALSE]

\* socket.on("message") of udpDiscovery for an announcement from address ip
onAnnouncement(srvs, prs, d, ip, host, c) ==
  LET key == <<ip, host.port>>
      Seen(r) == [r EXCEPT !.peers[d].discovery.discoveredHosts = @ \cup {key}]
  IN Seen(IF key \in prs[d].discovery.discoveredHosts
          THEN [servers |-> srvs, peers |-> prs, out |-> <<>>]
          ELSE onDiscovered(srvs, prs, d, ip, host, c))

----------------------------------------------------------------------------
(* Inputs                                                                   *)

\* the part of the random stream one generateJoinCode call may consume: two
\* candidates of six randomBytes(1)[0] draws each
Streams == {<<<<0, 0, 0, 0, 0, 0>>, <<255, 35, 26, 25, 0, 36>>>>,
            <<<<36, 72, 108, 144, 180, 216>>, <<255, 35, 26, 25, 0, 36>>>>}

\* a join code no room has
BadCode == CodeOf(<<9, 9, 9, 9, 9, 9>>)

LiveCodes(srvs) == UNION {DOMAIN srvs[h].roomManager.joinCodeToRoomId : h \in DOMAIN srvs}

ChatLog(roomId) == IF roomId \in DOMAIN sent THEN sent[roomId] ELSE <<>>

----------------------------------------------------------------------------
(* Initial state: no process runs                                           *)

\* value of outbox in the specifications that keep no record of the frames
NotRecorded == <<[to |-> None, type |-> "NOT_RECORDED", payload |-> [none |-> TRUE]]>>

NoElect == [members |-> <<>>, byPeer |-> EmptyMap, coordinator |-> None]

Init ==
  /\ servers = [d \in Devices |-> ServerDown]
  /\ peers = [d \in Devices |-> NewPeer(d)]
  /\ nextClient = 0
  /\ nextRoom = 0
  /\ outbox = NotRecorded
  /\ sent = EmptyMap
  /\ now = 0
  /\ elect = NoElect

----------------------------------------------------------------------------
(* Coordinator steps: a frame or socket event of connection c at the        *)
(* coordinator on device h                                                  *)

\* state after a step of processes: x holds servers, peers and frames
Becomes(x) ==
  /\ servers' = x.servers
  /\ peers' = x.peers
  /\ outbox' = IF outbox = NotRecorded THEN NotRecorded ELSE x.out

\* the coordinator's handler ran with result r: frames reach the peers at
\* the other end; a handler that throws out of the message listener ends the
\* process
ServerStep(h, r) ==
  Becomes(IF r.threw THEN ProcessDies(servers, peers, h)
          ELSE [servers |-> [servers EXCEPT ![h] = r.srv],
                peers |-> Deliver(peers, r.out, 1),
                out |-> r.out])

Connected(h, c) == servers[h].up /\ c \in DOMAIN servers[h].connectedClients

Connect(h, limit) ==
  /\ servers[h].up
  /\ nextClient < limit
  /\ nextClient' = nextClient + 1
  /\ ServerStep(h, Result(OnConnection(servers[h], ClientIdOf(nextClient + 1)), <<>>))
  /\ UNCHANGED <<nextRoom, sent, now, elect>>

Hello(h, c, deviceId, name) ==
  /\ Connected(h, c)
  /\ ServerStep(h, HandleHello(servers[h], c, deviceId, name))
  /\ UNCHANGED <<nextClient, nextRoom, sent, now, elect>>

CreateRoom(h, c, stream, limit) ==
  /\ Connected(h, c)
  /\ nextRoom < limit
  /\ servers[h].roomManager.globalJoinCounter < MaxJoins
  /\ generateJoinCodeEnds(servers[h].roomManager, stream)
  /\ nextRoom' = IF Identified(servers[h], c) THEN nextRoom + 1 ELSE nextRoom
  /\ ServerStep(h, HandleCreateRoom(servers[h], c, RoomIdOf(nextRoom + 1), stream))
  /\ UNCHANGED <<nextClient, sent, now, elect>>

JoinRoom(h, c, joinCode) ==
  /\ Connected(h, c)
  /\ servers[h].roomManager.globalJoinCounter < MaxJoins
  /\ ServerStep(h, HandleJoinRoom(servers[h], c, joinCode))
  /\ UNCHANGED <<nextClient, nextRoom, sent, now, elect>>

\* the room a CHAT frame of connection c goes to, None when the handler
\* answers with an error instead
ChatRoom(s, c) ==
  IF s.connectedClients[c].deviceId = None THEN None
  ELSE findRoomByDevice(s.roomManager, s.connectedClients[c].deviceId)

Chat(h, c, text, limit) ==
  /\ Connected(h, c)
  /\ LET roomId == ChatRoom(servers[h], c)
         a == appendChat(servers[h].roomManager, roomId,
                         servers[h].connectedClients[c].deviceId, text, now)
     IN /\ Len(ChatLog(roomId)) < limit
        /\ sent' = IF roomId # None /\ a.err = None
                   THEN MapPut(sent, roomId, Append(ChatLog(roomId), a.msg))
                   ELSE sent
  /\ ServerStep(h, HandleChat(servers[h], c, text, now))
  /\ UNCHANGED <<nextClient, nextRoom, now, elect>>

Kick(h, c, targetDeviceId) ==
  /\ Connected(h, c)
  /\ ServerStep(h, HandleKick(servers[h], c, targetDeviceId))
  /\ UNCHANGED <<nextClient, nextRoom, sent, now, elect>>

Close(h, c) ==
  /\ Connected(h, c)
  /\ ServerStep(h, HandleClose(servers[h], c))
  /\ UNCHANGED <<nextClient, nextRoom, sent, now, elect>>

\* RoomManager.changeName called on the coordinator's room manager
ChangeName(h, deviceId, newName) ==
  /\ servers[h].up
  /\ LET r == changeName(servers[h].roomManager, deviceId, newName)
     IN ServerStep(h, Result([servers[h] EXCEPT !.roomManager = r.rm], <<>>))
  /\ UNCHANGED <<nextClient, nextRoom, sent, now, elect>>

----------------------------------------------------------------------------
(* Coordinator specification: one coordinator, any client                   *)

CoordHost == "dev-A"
CoordDevices == {"dev-A", "dev-B"}
CoordNames == {"Alice", "alice"}

InitCoord ==
  /\ servers = [d \in Devices |-> IF d = CoordHost THEN NewServer ELSE ServerDown]
  /\ peers = [d \in Devices |-> NewPeer(d)]
  /\ nextClient = 0
  /\ nextRoom = 0
  /\ outbox = NotRecorded
  /\ sent = EmptyMap
  /\ now = 0
  /\ elect = NoElect

ClientIds == {ClientIdOf(n) : n \in 1..MaxClients}

CoordConnect == Connect(CoordHost, MaxClients)
CoordHello == \E c \in ClientIds, d \in CoordDevices, n \in CoordNames : Hello(CoordHost, c, d, n)
CoordCreateRoom == \E c \in ClientIds, stream \in Streams : CreateRoom(CoordHost, c, stream, MaxRooms)
CoordJoinRoom ==
  \E c \in ClientIds, code \in LiveCodes(servers) \cup {BadCode} : JoinRoom(CoordHost, c, code)
CoordChat == \E c \in ClientIds, text \in Texts : Chat(CoordHost, c, text, MaxChat)
CoordKick == \E c \in ClientIds, d \in CoordDevices : Kick(CoordHost, c, d)
CoordClose == \E c \in ClientIds : Close(CoordHost, c)
CoordChangeName == \E d \in CoordDevices, n \in CoordNames : ChangeName(CoordHost, d, n)

NextCoord ==
  \/ CoordConnect
  \/ CoordHello
  \/ CoordCreateRoom
  \/ CoordJoinRoom
  \/ CoordChat
  \/ CoordKick
  \/ CoordClose
  \/ CoordChangeName

SpecCoord == InitCoord /\ [][NextCoord]_vars

----------------------------------------------------------------------------
(* Join-code specification: one coordinator, rooms created and destroyed    *)

CodesConnect == Connect(CoordHost, MaxClients)
CodesHello == \E c \in ClientIds, d \in CoordDevices : Hello(CoordHost, c, d, ClientNameOf(d))
CodesCreateRoom == \E c \in ClientIds, stream \in Streams : CreateRoom(CoordHost, c, stream, MaxCodeRooms)
CodesJoinRoom ==
  \E c \in ClientIds, code \in LiveCodes(servers) \cup {BadCode} : JoinRoom(CoordHost, c, code)
CodesKick == \E c \in ClientIds, d \in CoordDevices : Kick(CoordHost, c, d)
CodesClose == \E c \in ClientIds : Close(CoordHost, c)

NextCodes ==
  \/ CodesConnect
  \/ CodesHello
  \/ CodesCreateRoom
  \/ CodesJoinRoom
  \/ CodesKick
  \/ CodesClose

SpecCodes == InitCoord /\ [][NextCodes]_vars

----------------------------------------------------------------------------
(* System specification: one process per device, started in host mode or    *)
(* join mode (index.ts), the coordinator it runs and its PeerNode           *)

\* PeerNode.send: the frame leaves only through an OPEN socket
CanSend(d) == peers[d].status = "running" /\ peers[d].ws.readyState = "OPEN"

\* index.ts, mode "host": start the server, start the peer, createRoom
StartHost(d, stream) ==
  /\ peers[d].status = "off"
  /\ ~servers[d].up
  /\ nextRoom < MaxHosts
  /\ nextClient < MaxConns
  /\ LET c == ClientIdOf(nextClient + 1)
         Created(x, r) == [servers |-> [x.servers EXCEPT ![d] = r.srv],
                           peers |-> Deliver(x.peers, r.out, 1),
                           out |-> x.out \o r.out]
         Started(x) ==
           Created(x, HandleCreateRoom(x.servers[d], c, RoomIdOf(nextRoom + 1), stream))
     IN Becomes(Started(connectToServer(
                  [servers EXCEPT ![d] = NewServer],
                  [peers EXCEPT ![d].status = "running", ![d].serverUrl = d], d, d, c)))
  /\ nextClient' = nextClient + 1
  /\ nextRoom' = nextRoom + 1
  /\ UNCHANGED <<sent, now, elect>>

\* index.ts, mode "join": start the peer against the coordinator at h, joinRoom
StartJoin(d, h, joinCode) ==
  /\ peers[d].status = "off"
  /\ h # d
  /\ servers[h].up
  /\ servers[h].roomManager.globalJoinCounter < MaxJoins
  /\ nextClient < MaxConns
  /\ LET c == ClientIdOf(nextClient + 1)
         Joined(x, r) == [servers |-> [x.servers EXCEPT ![h] = r.srv],
                          peers |-> Deliver(x.peers, r.out, 1),
                          out |-> x.out \o r.out]
         Started(x) == Joined(x, HandleJoinRoom(x.servers[h], c, joinCode))
     IN Becomes(Started(connectToServer(
                  servers, [peers EXCEPT ![d].status = "running", ![d].serverUrl = h],
                  d, h, c)))
  /\ nextClient' = nextClient + 1
  /\ UNCHANGED <<nextRoom, sent, now, elect>>

\* PeerNode.sendChat through an OPEN socket
PeerSendChat(d, text) ==
  /\ CanSend(d)
  /\ Chat(peers[d].ws.to, peers[d].ws.conn, text, MaxChat)

\* the "/kick <deviceId>" line of the chat interface through an OPEN socket
PeerKick(d, targetDeviceId) ==
  /\ CanSend(d)
  /\ Kick(peers[d].ws.to, peers[d].ws.conn, targetDeviceId)

\* the process on device d is killed
Kill(d) ==
  /\ peers[d].status = "running"
  /\ Becomes(ProcessDies(servers, peers, d))
  /\ UNCHANGED <<nextClient, nextRoom, sent, now, elect>>

\* ws.on("close") of the peer on device d
PeerOnClose(d) ==
  /\ peers[d].status = "running"
  /\ peers[d].closePending
  /\ Becomes(onServerDisconnected(servers, [peers EXCEPT ![d].closePending = FALSE], d))
  /\ UNCHANGED <<nextClient, nextRoom, sent, now, elect>>

\* the 10 s timer of waitForHostMigration fires; a close event a running peer
\* still has to handle is handled first (it is due at once, the timer 10 s
\* after the close event that armed it)
MigrationTimeout(d) ==
  /\ peers[d].status = "running"
  /\ peers[d].migrationTimeout > 0
  /\ \A x \in Devices : ~(peers[x].status = "running" /\ peers[x].closePending)
  /\ Becomes(becomeHostAfterMigration(servers,
               [peers EXCEPT ![d].migrationTimeout = @ - 1,
                             ![d].discovery = stopDiscovery(@)], d))
  /\ UNCHANGED <<nextClient, nextRoom, sent, now, elect>>

\* a datagram of the announcer on device a reaches the discovery socket on d
AnnounceDeliver(a, d) ==
  /\ peers[a].status = "running" /\ peers[a].announce.socket
  /\ peers[d].status = "running" /\ peers[d].discovery.socket
  /\ nextClient < MaxConns
  /\ LET c == ClientIdOf(nextClient + 1)
         Heard(x) ==
           /\ Becomes(x)
           /\ nextClient' = IF x.peers[d].ws.conn = c THEN nextClient + 1 ELSE nextClient
     IN Heard(onAnnouncement(servers, peers, d, a, peers[a].announce.message, c))
  /\ UNCHANGED <<nextRoom, sent, now, elect>>

Next ==
  \/ \E d \in Devices, stream \in Streams : StartHost(d, stream)
  \/ \E d \in Devices, h \in Devices, code \in LiveCodes(servers) \cup {BadCode} :
       StartJoin(d, h, code)
  \/ \E d \in Devices, text \in Texts : PeerSendChat(d, text)
  \/ \E d \in Devices, t \in Devices : PeerKick(d, t)
  \/ \E d \in Devices : Kill(d)
  \/ \E d \in Devices : PeerOnClose(d)
  \/ \E d \in Devices : MigrationTimeout(d)
  \/ \E a \in Devices, d \in Devices : AnnounceDeliver(a, d)

Spec == Init /\ [][Next]_vars

----------------------------------------------------------------------------
(* Chat-buffer specification: one room on one coordinator, its host chats   *)

ChatClient == ClientIdOf(1)
ChatStream == <<<<0, 0, 0, 0, 0, 0>>>>

\* the coordinator after the host connected, sent HELLO and CREATE_ROOM
InitRoom ==
  /\ servers = [d \in Devices |->
       IF d = CoordHost
       THEN HandleCreateRoom(
              HandleHello(OnConnection(NewServer, ChatClient), ChatClient,
                          CoordHost, ClientNameOf(CoordHost)).srv,
              ChatClient, RoomIdOf(1), ChatStream).srv
       ELSE ServerDown]
  /\ peers = [d \in Devices |-> NewPeer(d)]
  /\ nextClient = 1
  /\ nextRoom = 1
  /\ outbox = NotRecorded
  /\ sent = EmptyMap
  /\ now = 0
  /\ elect = NoElect

ChatSend == \E text \in Texts : Chat(CoordHost, ChatClient, text, MaxSent)

\* Date.now() moves on
Tick ==
  /\ now < MaxNow
  /\ now' = now + 1
  /\ UNCHANGED <<servers, peers, nextClient, nextRoom, outbox, sent, elect>>

NextChat ==
  \/ ChatSend
  \/ Tick

SpecChat == InitRoom /\ [][NextChat]_vars

----------------------------------------------------------------------------
(* Name specification: the coordinator holds the room its host created; any *)
(* client identifies, joins, is kicked, leaves or has its name changed      *)

NamesConnect == Connect(CoordHost, MaxClients)
NamesHello == \E c \in ClientIds, d \in CoordDevices, n \in CoordNames : Hello(CoordHost, c, d, n)
NamesJoinRoom ==
  \E c \in ClientIds, code \in LiveCodes(servers) \cup {BadCode} : JoinRoom(CoordHost, c, code)
NamesKick == \E c \in ClientIds, d \in CoordDevices : Kick(CoordHost, c, d)
NamesClose == \E c \in ClientIds : Close(CoordHost, c)
NamesChangeName == \E d \in CoordDevices, n \in CoordNames : ChangeName(CoordHost, d, n)

NextNames ==
  \/ NamesConnect
  \/ NamesHello
  \/ NamesJoinRoom
  \/ NamesKick
  \/ NamesClose
  \/ NamesChangeName

SpecNames == InitRoom /\ [][NextNames]_vars

----------------------------------------------------------------------------
(* Election specification: one member list, elected by two peers that hold  *)
(* it as their snapshot and by the coordinator that holds it as its room    *)

ElectDevices == {"dev-A", "Aa", "BB", "device-4242"}
ElectPeers == {"dev-B", "dev-C"}

ElectMember(d, order) ==
  [deviceId |-> d, clientId |-> ClientIdOf(1), name |-> d, joinOrder |-> order,
   role |-> "member"]

ElectLists ==
  UNION {[1..n -> {ElectMember(d, o) : d \in ElectDevices, o \in 0..MaxOrder}] :
           n \in 1..MaxElect}

ElectRoom(members) ==
  [roomId |-> RoomIdOf(1), joinCode |-> BadCode, hostDeviceId |-> members[1].deviceId,
   members |-> members, chat |-> <<>>]

\* a room manager whose one room has these members
ElectManager(members) == setRoom(NewRoomManager, ElectRoom(members))

InitElect ==
  /\ servers = [d \in Devices |-> ServerDown]
  /\ peers = [d \in Devices |-> NewPeer(d)]
  /\ nextClient = 0
  /\ nextRoom = 0
  /\ outbox = NotRecorded
  /\ sent = EmptyMap
  /\ now = 0
  /\ \E members \in ElectLists :
       elect = [members |-> members, byPeer |-> EmptyMap, coordinator |-> None]

\* the peer on device d runs its election on the snapshot of the list
PeerElects(d) ==
  /\ d \notin DOMAIN elect.byPeer
  /\ LET snapshot == makeSnapshot(ElectManager(elect.members), RoomIdOf(1))
         peer == handleStateSnapshot(NewPeer(d), d, snapshot)
     IN elect' = [elect EXCEPT !.byPeer = MapPut(@, d, runLeaderElection(peer))]
  /\ UNCHANGED <<servers, peers, nextClient, nextRoom, outbox, sent, now>>

\* the coordinator runs its election on the room
CoordinatorElects ==
  /\ elect.coordinator = None
  /\ elect' = [elect EXCEPT
                 !.coordinator = electNewHost(ElectManager(elect.members), RoomIdOf(1))]
  /\ UNCHANGED <<servers, peers, nextClient, nextRoom, outbox, sent, now>>

NextElect ==
  \/ \E d \in ElectPeers : PeerElects(d)
  \/ CoordinatorElects

SpecElect == InitElect /\ [][NextElect]_vars

----------------------------------------------------------------------------
(* Properties                                                               *)

\* every room a coordinator holds
AllRooms ==
  UNION {{servers[h].roomManager.rooms[i] : i \in 1..Len(servers[h].roomManager.rooms)} :
           h \in Devices}

Hosts(room) == {i \in 1..Len(room.members) : room.members[i].role = "host"}

\* no two positions of the member list hold the same value of the field
Distinct(members, field) ==
  \A i, j \in 1..Len(members) : i # j => members[i][field] # members[j][field]

\* C3: in every room a coordinator holds after any sequence of CREATE_ROOM,
\* JOIN_ROOM, CHAT, KICK and connection-close events, exactly one member has
\* role host, and that member's deviceId is the room's hostDeviceId.
C3_ExactlyOneHost ==
  \A room \in AllRooms :
    /\ Cardinality(Hosts(room)) = 1
    /\ \A i \in Hosts(room) : room.members[i].deviceId = room.hostDeviceId

\* C4: in every room a coordinator holds, the deviceIds of the members are
\* pairwise distinct, also after a member device sent JOIN_ROOM again under
\* another name.
C4_DistinctDeviceIds == \A room \in AllRooms : Distinct(room.members, "deviceId")

\* C5: in every room a coordinator holds, the names of the members are
\* pairwise distinct (compared case-sensitively), and in every such state a
\* join or a name change that asks for a name some member of the room has is
\* rejected with NAME_CONFLICT and leaves the room manager as it was.
C5_DistinctNames ==
  /\ \A room \in AllRooms : Distinct(room.members, "name")
  /\ \A room \in AllRooms : \A i \in 1..Len(room.members), d \in Devices :
       LET rm == servers[CoordHost].roomManager
           taken == room.members[i].name
           j == joinRoomByCode(rm, room.joinCode, d, ClientIdOf(1), taken)
           c == changeName(rm, d, taken)
       IN /\ j.err = "NAME_CONFLICT" /\ j.rm = rm
          /\ findRoomByDevice(rm, d) = room.roomId => c.err = "NAME_CONFLICT" /\ c.rm = rm

\* a room with two members whose names differ only in case, reached after the
\* checks of joinRoomByCode and changeName have acted
C5_Witness ==
  \E room \in AllRooms :
    /\ Len(room.members) = 2
    /\ {room.members[1].name, room.members[2].name} = {"Alice", "alice"}
    /\ room.members[1].deviceId # room.members[2].deviceId

\* C7: on one coordinator the join codes of the live rooms are pairwise
\* distinct, each is 6 characters out of A-Z and 0-9, and the joinCode ->
\* roomId table holds exactly the codes of the live rooms, each leading to
\* its room.
C7_JoinCodes ==
  \A h \in Devices :
    LET rm == servers[h].roomManager
        Alphabet == {chars[k] : k \in 1..Len(chars)}
    IN /\ \A i, j \in 1..Len(rm.rooms) : i # j => rm.rooms[i].joinCode # rm.rooms[j].joinCode
       /\ \A i \in 1..Len(rm.rooms) :
            /\ Len(rm.rooms[i].joinCode) = 6
            /\ \A k \in 1..6 : rm.rooms[i].joinCode[k] \in Alphabet
       /\ DOMAIN rm.joinCodeToRoomId = {rm.rooms[i].joinCode : i \in 1..Len(rm.rooms)}
       /\ \A i \in 1..Len(rm.rooms) :
            rm.joinCodeToRoomId[rm.rooms[i].joinCode] = rm.rooms[i].roomId

\* two live rooms on the coordinator, the second created from a random
\* stream whose first candidate was the code of the first
C7_Witness ==
  LET rm == servers[CoordHost].roomManager
  IN /\ Len(rm.rooms) = 2
     /\ rm.rooms[1].joinCode = CodeOf(<<0, 0, 0, 0, 0, 0>>)
     /\ rm.rooms[2].joinCode = CodeOf(<<255, 35, 26, 25, 0, 36>>)

\* the last n entries of a sequence
LastN(q, n) == SubSeq(q, Len(q) - n + 1, Len(q))

\* C8: after any sequence of appendChat calls the chat buffer of the room
\* holds at most 50 entries and is the last min(n, 50) of the n chats sent,
\* in send order (the 51st chat drops exactly the oldest).
C8_ChatBuffer ==
  \A room \in AllRooms :
    LET log == ChatLog(room.roomId)
    IN /\ Len(room.chat) <= 50
       /\ room.chat = LastN(log, IF Len(log) < 50 THEN Len(log) ELSE 50)

\* 52 chats were sent across a clock tick: the two oldest are gone, the
\* buffer is full, begins before the tick and ends after it
C8_Witness ==
  \E room \in AllRooms :
    /\ Len(ChatLog(room.roomId)) = 52
    /\ Len(room.chat) = 50
    /\ room.chat[1].timestamp = 0
    /\ room.chat[50].timestamp = 1

\* m is first in members by joinOrder ascending, then hash(deviceId) ascending
IsFirst(m, members) ==
  \A j \in 1..Len(members) :
    \/ m.joinOrder < members[j].joinOrder
    \/ /\ m.joinOrder = members[j].joinOrder
       /\ HashDiff(PeerNode_hash(m.deviceId), PeerNode_hash(members[j].deviceId)) <= 0

\* C9: every peer that holds the member list as its snapshot elects the same
\* deviceId, the coordinator that holds the list as its room elects that
\* deviceId too, and the elected device belongs to a member that is first by
\* joinOrder ascending, ties broken by hash(deviceId) ascending.
C9_SameElection ==
  LET results == {elect.byPeer[d] : d \in DOMAIN elect.byPeer}
                   \cup (IF elect.coordinator = None THEN {} ELSE {elect.coordinator})
  IN /\ Cardinality(results) <= 1
     /\ \A e \in results :
          \E i \in 1..Len(elect.members) :
            /\ elect.members[i].deviceId = e
            /\ IsFirst(elect.members[i], elect.members)

\* both peers and the coordinator have elected on a list whose first two
\* members tie on joinOrder, and the one with the smaller hash, second in the
\* list, won
C9_Witness ==
  /\ DOMAIN elect.byPeer = ElectPeers
  /\ elect.coordinator # None
  /\ Len(elect.members) >= 2
  /\ elect.members[1].joinOrder = elect.members[2].joinOrder
  /\ elect.members[1].deviceId # elect.coordinator
  /\ elect.members[2].deviceId = elect.coordinator

\* the peer on device d lost the coordinator on device h while it held a
\* snapshot of h's room: h is the snapshot's host and its only host member
LostServer(d, h) ==
  /\ peers[d].status = "running"
  /\ peers[d].lastLoss.lost = h
  /\ peers[d].latestSnapshot # NullSnapshot
  /\ LET room == peers[d].latestSnapshot.room
     IN /\ room.hostDeviceId = h
        /\ Cardinality(Hosts(room)) = 1
        /\ \A i \in Hosts(room) : room.members[i].deviceId = h

\* C1: of two surviving peers that lost the same coordinator holding the same
\* cached snapshot, at most one starts a local coordinator for the room.
C1_AtMostOneBecomingHost ==
  \A d1, d2 \in Devices, h \in Devices :
    (/\ d1 # d2
     /\ LostServer(d1, h) /\ LostServer(d2, h)
     /\ peers[d1].latestSnapshot = peers[d2].latestSnapshot)
    => ~(peers[d1].hostStarts > 0 /\ peers[d2].hostStarts > 0)

\* C2: the election a peer runs when the coordinator on the device of its
\* cached snapshot's hostDeviceId is lost does not elect that device, and the
\* peer that is then left alone with the lost host does not wait for a host.
C2_ElectionSkipsLostHost ==
  \A d \in Devices :
    (/\ peers[d].lastLoss.lost # None
     /\ peers[d].latestSnapshot # NullSnapshot
     /\ peers[d].latestSnapshot.room.hostDeviceId = peers[d].lastLoss.lost)
    => /\ peers[d].lastLoss.elected # peers[d].lastLoss.lost
       /\ peers[d].phase # "AwaitingHost"

ChatOf(room) == IF hasChat(room) THEN room.chat ELSE <<>>

\* C10: a step in which a peer starts its local coordinator leaves on that
\* coordinator a room with the roomId, joinCode, member list and chat buffer
\* of the peer's cached snapshot.
C10_RestoredRoomIsSnapshot ==
  [][\A d \in Devices :
       peers'[d].hostStarts > peers[d].hostStarts =>
         LET snapshot == peers[d].latestSnapshot
             rm == servers'[d].roomManager
         IN /\ hasRoom(rm, snapshot.room.roomId)
            /\ LET room == getRoom(rm, snapshot.room.roomId)
               IN /\ room.joinCode = snapshot.room.joinCode
                  /\ room.members = snapshot.room.members
                  /\ ChatOf(room) = snapshot.chat]_vars

----------------------------------------------------------------------------
(* System specification that keeps the frames of the last step              *)

InitFrames ==
  /\ servers = [d \in Devices |-> ServerDown]
  /\ peers = [d \in Devices |-> NewPeer(d)]
  /\ nextClient = 0
  /\ nextRoom = 0
  /\ outbox = <<>>
  /\ sent = EmptyMap
  /\ now = 0
  /\ elect = NoElect

SpecFrames == InitFrames /\ [][Next]_vars

\* the coordinator on device h was started by a migration and still runs
Migrated(h) == servers[h].up /\ peers[h].hostStarts > 0

\* the STATE_SNAPSHOT frames the coordinator on device h wrote in the last step
SnapshotsOf(h) ==
  {outbox[i].payload.snapshot : i \in {k \in 1..Len(outbox) :
     /\ outbox[k].type = "STATE_SNAPSHOT"
     /\ outbox[k].to \in DOMAIN servers[h].connectedClients}}

\* C11: after the peer on device B lost the coordinator of host A and
\* started its own, every snapshot that coordinator broadcasts names B as
\* hostDeviceId, not the lost device A, and has B among its members.
C11_MigratedSnapshotHost ==
  \A A \in Devices, B \in Devices :
    (LostServer(B, A) /\ Migrated(B)) =>
      \A snapshot \in SnapshotsOf(B) :
        /\ snapshot.room.hostDeviceId = B
        /\ hasMember(snapshot.room, B)

----------------------------------------------------------------------------
(* Snapshot specification: one snapshot, restored into an empty room        *)
(* manager, of which a snapshot is taken again                              *)

RoundDevices == {"dev-A", "dev-B"}
RoundNames == {"Alice", "Bob"}

\* what a member list is drawn from: per position a device, a name and a
\* joinOrder
RoundChoices(n) ==
  [1..n -> [deviceId : RoundDevices, name : RoundNames, joinOrder : 0..MaxOrder]]

\* the member list of a room whose host device is h: the clientId of a member
\* is that of its connection, its role follows hostDeviceId
RoundMembers(h, f) ==
  [i \in DOMAIN f |->
    [deviceId |-> f[i].deviceId, clientId |-> ClientIdOf(i), name |-> f[i].name,
     joinOrder |-> f[i].joinOrder,
     role |-> IF f[i].deviceId = h THEN "host" ELSE "member"]]

RoundChats ==
  UNION {[1..n -> [fromDeviceId : {"dev-A"}, fromName : {"Alice"}, text : Texts,
                   timestamp : {0}]] : n \in 0..MaxEntries}

\* identity tables a snapshot may carry for a member list: the mirror of the
\* list, an empty table, and one that knows a device under another value
RoundTables(members, field) ==
  {IdentityTable(members, field), EmptyMap,
   [d \in DOMAIN IdentityTable(members, field) |-> "stale"]}

InitRound ==
  /\ servers = [d \in Devices |-> ServerDown]
  /\ peers = [d \in Devices |-> NewPeer(d)]
  /\ nextClient = 0
  /\ nextRoom = 0
  /\ outbox = NotRecorded
  /\ sent = EmptyMap
  /\ now = 0
  /\ \E h \in RoundDevices, n \in 1..MaxMembers, chat \in RoundChats :
       \E f \in RoundChoices(n) :
         \E t1 \in RoundTables(RoundMembers(h, f), "clientId"),
            t2 \in RoundTables(RoundMembers(h, f), "name") :
           elect = [snapshot |->
                      [room |-> [roomId |-> RoomIdOf(1), joinCode |-> BadCode,
                                 hostDeviceId |-> h, members |-> RoundMembers(h, f)],
                       chat |-> chat,
                       identity |-> [deviceIdToClientId |-> t1, deviceIdToName |-> t2]],
                    manager |-> NewRoomManager, restored |-> FALSE, again |-> NullSnapshot]

\* restoreFromSnapshot(S, roomManager) on the empty room manager
RoundRestore ==
  /\ ~elect.restored
  /\ elect' = [elect EXCEPT !.manager = restoreFromSnapshot(elect.snapshot, @),
                            !.restored = TRUE]
  /\ UNCHANGED <<servers, peers, nextClient, nextRoom, outbox, sent, now>>

\* makeSnapshot(roomManager, roomId) of the restored room
RoundSnapshot ==
  /\ elect.restored
  /\ elect.again = NullSnapshot
  /\ elect' = [elect EXCEPT !.again = makeSnapshot(elect.manager, elect.snapshot.room.roomId)]
  /\ UNCHANGED <<servers, peers, nextClient, nextRoom, outbox, sent, now>>

NextRound ==
  \/ RoundRestore
  \/ RoundSnapshot

SpecRound == InitRound /\ [][NextRound]_vars

\* invariants 1, 2, 4, 5 and 6 of the data model, for one snapshot
WellFormed(S) ==
  /\ Cardinality(Hosts(S.room)) = 1
  /\ \A i \in Hosts(S.room) : S.room.members[i].deviceId = S.room.hostDeviceId
  /\ Distinct(S.room.members, "deviceId")
  /\ Distinct(S.room.members, "name")
  /\ Distinct(S.room.members, "joinOrder")
  /\ Len(S.chat) <= CHAT_BUFFER_LIMIT
  /\ S.identity.deviceIdToClientId = IdentityTable(S.room.members, "clientId")
  /\ S.identity.deviceIdToName = IdentityTable(S.room.members, "name")

\* C12: for every snapshot S that satisfies the invariants of the data model,
\* the snapshot taken of the room after S was restored into an empty room
\* manager equals S: room, chat and both identity tables.
C12_RoundTrip ==
  (elect.again # NullSnapshot /\ WellFormed(elect.snapshot)) => elect.again = elect.snapshot

\* a well-formed snapshot with two members and a chat entry went round
C12_Witness ==
  /\ elect.again # NullSnapshot
  /\ WellFormed(elect.snapshot)
  /\ Len(elect.snapshot.room.members) = 2
  /\ Len(elect.snapshot.chat) = 1

\* C13: in the snapshot makeSnapshot produces of any room a coordinator
\* holds, the keys of deviceIdToClientId and of deviceIdToName are exactly the
\* deviceIds of the members, and every member's deviceId leads to that
\* member's clientId and name.
C13_IdentityMirrorsMembers ==
  \A h \in Devices : \A i \in 1..Len(servers[h].roomManager.rooms) :
    LET S == makeSnapshot(servers[h].roomManager, servers[h].roomManager.rooms[i].roomId)
        members == S.room.members
        ids == {members[k].deviceId : k \in 1..Len(members)}
    IN /\ DOMAIN S.identity.deviceIdToClientId = ids
       /\ DOMAIN S.identity.deviceIdToName = ids
       /\ \A k \in 1..Len(members) :
            /\ S.identity.deviceIdToClientId[members[k].deviceId] = members[k].clientId
            /\ S.identity.deviceIdToName[members[k].deviceId] = members[k].name

\* C14: a running peer that lost the coordinator of its host and has
\* completed Becoming-Host is connected again: its socket is OPEN and leads to
\* the coordinator on its own device, so that a sendChat of that peer leaves
\* through it.
C14_HostIsConnected ==
  \A d \in Devices, h \in Devices :
    (LostServer(d, h) /\ peers[d].hostStarts > 0) =>
      (CanSend(d) /\ peers[d].ws.to = d)

----------------------------------------------------------------------------
(* Loss specification: processes start, die and migrate, and a peer that is *)
(* handling a loss is notified of the same disconnect once more             *)

\* elect.notified: the peers that were notified a second time
InitLoss ==
  /\ servers = [d \in Devices |-> ServerDown]
  /\ peers = [d \in Devices |-> NewPeer(d)]
  /\ nextClient = 0
  /\ nextRoom = 0
  /\ outbox = NotRecorded
  /\ sent = EmptyMap
  /\ now = 0
  /\ elect = [notified |-> {}]

\* onServerDisconnected is called again while isHandlingServerLoss is set
DuplicateClose(d) ==
  /\ peers[d].status = "running"
  /\ peers[d].isHandlingServerLoss
  /\ d \notin elect.notified
  /\ Becomes(onServerDisconnected(servers, peers, d))
  /\ elect' = [elect EXCEPT !.notified = @ \cup {d}]
  /\ UNCHANGED <<nextClient, nextRoom, sent, now>>

NextLoss ==
  \/ \E d \in Devices, stream \in Streams : StartHost(d, stream)
  \/ \E d \in Devices, h \in Devices, code \in LiveCodes(servers) \cup {BadCode} :
       StartJoin(d, h, code)
  \/ \E d \in Devices : Kill(d)
  \/ \E d \in Devices : PeerOnClose(d)
  \/ \E d \in Devices : MigrationTimeout(d)
  \/ \E a \in Devices, d \in Devices : AnnounceDeliver(a, d)
  \/ \E d \in Devices : DuplicateClose(d)

SpecLoss == InitLoss /\ [][NextLoss]_vars

\* C15: a step in which a peer that is handling a server loss is notified of
\* the disconnect again changes nothing: no election result, no coordinator,
\* announcer, discoverer or timer, no connection state, no cached snapshot.
C15_SecondNotificationIsNoOp ==
  [][\A d \in Devices :
       (d \notin elect.notified /\ d \in elect'.notified) =>
         (servers' = servers /\ peers' = peers)]_vars

\* a peer that waits for a new host, its timer armed and its discoverer
\* listening, has been notified a second time
C15_Witness ==
  \E d \in elect.notified :
    /\ peers[d].isHandlingServerLoss
    /\ peers[d].phase = "AwaitingHost"
    /\ peers[d].migrationTimeout = 1
    /\ peers[d].discovery.socket

----------------------------------------------------------------------------
(* Join specification: the processes run under display names that may       *)
(* coincide; a host creates the room, the others join it with its code, the *)
(* members chat and the host kicks; the frames of the last step are kept    *)

JoinNames == {"Alice", "Bob"}

InitJoin ==
  /\ servers = [d \in Devices |-> ServerDown]
  /\ \E names \in [Devices -> JoinNames] :
       peers = [d \in Devices |-> [NewPeer(d) EXCEPT !.clientName = names[d]]]
  /\ nextClient = 0
  /\ nextRoom = 0
  /\ outbox = <<>>
  /\ sent = EmptyMap
  /\ now = 0
  /\ elect = NoElect

NextJoin ==
  \/ \E d \in Devices, stream \in Streams : StartHost(d, stream)
  \/ \E d \in Devices, h \in Devices :
       \E code \in DOMAIN servers[h].roomManager.joinCodeToRoomId : StartJoin(d, h, code)
  \/ \E d \in Devices, text \in Texts : PeerSendChat(d, text)
  \/ \E d \in Devices, t \in Devices : PeerKick(d, t)

SpecJoin == InitJoin /\ [][NextJoin]_vars

\* the step starts the process on device d in join mode against the
\* coordinator on device h
JoinStep(d, h) ==
  /\ peers[d].status = "off"
  /\ peers'[d].status = "running"
  /\ peers'[d].ws.to = h
  /\ h # d

\* every room of the coordinator on device h has a member of that name
NameTaken(h, name) ==
  /\ servers[h].roomManager.rooms # <<>>
  /\ \A i \in 1..Len(servers[h].roomManager.rooms) :
       hasName(servers[h].roomManager.rooms[i], name)

\* C16: a step in which a process joins a room under a name a member of the
\* room has writes an ERROR with reason NAME_CONFLICT to the joiner, writes no
\* frame to anyone else and no STATE_SNAPSHOT at all, and leaves the room
\* manager and the cached snapshot of every other peer as they were.
C16_NameConflictJoin ==
  [][\A d \in Devices, h \in Devices :
       (JoinStep(d, h) /\ NameTaken(h, peers[d].clientName)) =>
         /\ \E i \in 1..Len(outbox') :
              /\ outbox'[i].type = "ERROR"
              /\ outbox'[i].payload.reason = "NAME_CONFLICT"
         /\ \A i \in 1..Len(outbox') :
              /\ outbox'[i].to = peers'[d].ws.conn
              /\ outbox'[i].type # "STATE_SNAPSHOT"
         /\ servers'[h].roomManager = servers[h].roomManager
         /\ \A x \in Devices \ {d} : peers'[x] = peers[x]
         /\ peers'[d].latestSnapshot = NullSnapshot]_vars

\* a process has just been refused with NAME_CONFLICT by a coordinator whose
\* room has two members, one of them under the name of the refused process
C16_Witness ==
  \E d \in Devices, h \in Devices :
    /\ CanSend(d) /\ peers[d].ws.to = h /\ h # d
    /\ peers[d].latestSnapshot = NullSnapshot
    /\ NameTaken(h, peers[d].clientName)
    /\ Len(servers[h].roomManager.rooms[1].members) = 2
    /\ \E i \in 1..Len(outbox) :
         /\ outbox[i].to = peers[d].ws.conn
         /\ outbox[i].type = "ERROR"
         /\ outbox[i].payload.reason = "NAME_CONFLICT"

\* the step is a KICK at the coordinator on device h that removes the sole
\* member of device B from room i, B not being the room's host: no connection
\* of h opens or closes in the step
KickStep(h, i, B) ==
  /\ servers[h].up /\ servers'[h].up
  /\ servers'[h].connectedClients = servers[h].connectedClients
  /\ i <= Len(servers[h].roomManager.rooms) /\ i <= Len(servers'[h].roomManager.rooms)
  /\ servers[h].roomManager.rooms[i].hostDeviceId # B
  /\ hasMember(servers[h].roomManager.rooms[i], B)
  /\ ~hasMember(servers'[h].roomManager.rooms[i], B)

\* C17: a step in which the host's KICK removes member B makes the
\* coordinator write a snapshot without B to every member left, and closes
\* the socket of the peer on device B, so that B meets a close event and
\* enters ServerLost.
C17_KickedPeerCloses ==
  [][\A h \in Devices, B \in Devices : \A i \in 1..Len(servers[h].roomManager.rooms) :
       (KickStep(h, i, B) /\ CanSend(B) /\ peers[B].ws.to = h) =>
         /\ \A k \in 1..Len(servers'[h].roomManager.rooms[i].members) :
              \E f \in 1..Len(outbox') :
                /\ outbox'[f].to = servers'[h].roomManager.rooms[i].members[k].clientId
                /\ outbox'[f].type = "STATE_SNAPSHOT"
                /\ ~hasMember(outbox'[f].payload.snapshot.room, B)
         /\ (peers'[B].closePending \/ peers'[B].ws.readyState # "OPEN")]_vars

\* connection c of the coordinator on device h belongs to a device that is a
\* member of a room and is not the host of the room kick finds for it
NonHostMember(h, c) ==
  /\ Connected(h, c)
  /\ servers[h].connectedClients[c].deviceId # None
  /\ LET rm == servers[h].roomManager
         roomId == findRoomByDevice(rm, servers[h].connectedClients[c].deviceId)
     IN /\ roomId # None
        /\ getRoom(rm, roomId).hostDeviceId # servers[h].connectedClients[c].deviceId

\* C18: whenever a connection belongs to a member that is not the host of its
\* room, a KICK frame on it, whatever its target, is answered with one ERROR
\* of reason NOT_HOST to the sender and leaves the coordinator, its rooms and
\* their members as they were.
C18_KickByNonHost ==
  \A h \in Devices : \A c \in DOMAIN servers[h].connectedClients, t \in Devices :
    NonHostMember(h, c) =>
      HandleKick(servers[h], c, t) =
        Result(servers[h], <<Frame(c, "ERROR", [reason |-> "NOT_HOST"])>>)

\* a member that is not the host has just sent KICK and got NOT_HOST; the
\* room still has its two members, the host and the sender
C18_Witness ==
  \E h \in Devices : \E c \in DOMAIN servers[h].connectedClients :
    /\ NonHostMember(h, c)
    /\ outbox = <<Frame(c, "ERROR", [reason |-> "NOT_HOST"])>>
    /\ Len(servers[h].roomManager.rooms[1].members) = 2
    /\ Cardinality(Hosts(servers[h].roomManager.rooms[1])) = 1

----------------------------------------------------------------------------
(* Handshake specification: one coordinator; connections send their frames  *)
(* with or without a HELLO before them; the frames of the last step are kept *)

\* the coordinator after the host connected, sent HELLO and CREATE_ROOM
InitHello ==
  /\ servers = [d \in Devices |->
       IF d = CoordHost
       THEN HandleCreateRoom(
              HandleHello(OnConnection(NewServer, ChatClient), ChatClient,
                          CoordHost, ClientNameOf(CoordHost)).srv,
              ChatClient, RoomIdOf(1), ChatStream).srv
       ELSE ServerDown]
  /\ peers = [d \in Devices |-> NewPeer(d)]
  /\ nextClient = 1
  /\ nextRoom = 1
  /\ outbox = <<>>
  /\ sent = EmptyMap
  /\ now = 0
  /\ elect = NoElect

HelloConnect == Connect(CoordHost, MaxClients)

\* the HELLO of a connection is its first frame or is never sent
HelloHello ==
  \E c \in ClientIds, d \in Devices :
    /\ Connected(CoordHost, c)
    /\ servers[CoordHost].connectedClients[c].deviceId = None
    /\ Hello(CoordHost, c, d, ClientNameOf(d))

\* CREATE_ROOM on a connection that has not sent HELLO: it creates no room,
\* so the bound on rooms does not apply
HelloCreateRoom ==
  \E c \in ClientIds, stream \in Streams :
    /\ Connected(CoordHost, c)
    /\ ~Identified(servers[CoordHost], c)
    /\ CreateRoom(CoordHost, c, stream, nextRoom + 1)

HelloJoinRoom ==
  \E c \in ClientIds, code \in LiveCodes(servers) \cup {BadCode} : JoinRoom(CoordHost, c, code)
HelloChat == \E c \in ClientIds, text \in Texts : Chat(CoordHost, c, text, MaxChat)
HelloKick == \E c \in ClientIds, d \in Devices : Kick(CoordHost, c, d)

NextHello ==
  \/ HelloConnect
  \/ HelloHello
  \/ HelloCreateRoom
  \/ HelloJoinRoom
  \/ HelloChat
  \/ HelloKick

SpecHello == InitHello /\ [][NextHello]_vars

\* the answer to a frame on a connection that has not sent HELLO
MustHello(s, c) == Result(s, <<Frame(c, "ERROR", [reason |-> "Must send HELLO first"])>>)

\* C19: on every connection that has not sent HELLO, a CREATE_ROOM, a
\* JOIN_ROOM (with a live or an unknown code), a CHAT and a KICK are each
\* answered with the ERROR "Must send HELLO first" and leave the coordinator
\* as it was: rooms, join-code table and join counter.
C19_MustSendHelloFirst ==
  \A h \in Devices : \A c \in DOMAIN servers[h].connectedClients :
    (servers[h].connectedClients[c].deviceId = None
       /\ servers[h].connectedClients[c].name = None) =>
      LET s == servers[h]
      IN /\ \A stream \in Streams :
              HandleCreateRoom(s, c, RoomIdOf(nextRoom + 1), stream) = MustHello(s, c)
         /\ \A code \in LiveCodes(servers) \cup {BadCode} :
              HandleJoinRoom(s, c, code) = MustHello(s, c)
         /\ \A text \in Texts : HandleChat(s, c, text, now) = MustHello(s, c)
         /\ \A t \in Devices : HandleKick(s, c, t) = MustHello(s, c)

\* a connection that has not sent HELLO has just been answered with the
\* error, on a coordinator that holds a room with a chat in its buffer
C19_Witness ==
  \E c \in DOMAIN servers[CoordHost].connectedClients :
    /\ servers[CoordHost].connectedClients[c].deviceId = None
    /\ outbox = MustHello(servers[CoordHost], c).out
    /\ servers[CoordHost].roomManager.rooms # <<>>
    /\ Len(servers[CoordHost].roomManager.rooms[1].chat) = 1

\* C20: the table of discovered hosts is empty whenever a discovery window
\* ends and whenever the next one begins, so that the first datagram of a key
\* in a window, and only the first, reaches the callback (a datagram whose
\* key is in the table does not).
C20_WindowStartsEmpty ==
  [][\A d \in Devices :
       /\ (peers[d].discovery.socket /\ ~peers'[d].discovery.socket)
            => peers'[d].discovery.discoveredHosts = {}
       /\ (~peers[d].discovery.socket /\ peers'[d].discovery.socket)
            => peers'[d].discovery.discoveredHosts = {}]_vars

----------------------------------------------------------------------------
(* CHAT of a member                                                         *)

\* the peer on device d has an OPEN socket to a coordinator in one of whose
\* rooms its device is a member
MemberPeer(d) ==
  /\ CanSend(d)
  /\ Connected(peers[d].ws.to, peers[d].ws.conn)
  /\ ChatRoom(servers[peers[d].ws.to], peers[d].ws.conn) # None

\* C21: a CHAT frame of a member is answered, to every member of the room in
\* turn (the sender included, each over a connection the coordinator has),
\* with a CHAT frame carrying the sender's deviceId, its name and the text,
\* and after these with a STATE_SNAPSHOT to every member whose chat buffer
\* ends with that entry.
C21_ChatReachesEveryMember ==
  \A d \in Devices, text \in Texts :
    MemberPeer(d) =>
      LET s == servers[peers[d].ws.to]
          c == peers[d].ws.conn
          roomId == ChatRoom(s, c)
          members == getRoom(s.roomManager, roomId).members
          n == Len(members)
          r == HandleChat(s, c, text, now)
      IN /\ ~r.threw
         /\ Len(r.out) = 2 * n
         /\ \E i \in 1..n : members[i].clientId = c
         /\ \A i \in 1..n :
              /\ members[i].clientId \in DOMAIN s.connectedClients
              /\ r.out[i].to = members[i].clientId
              /\ r.out[i].type = "CHAT"
              /\ r.out[i].payload.fromDeviceId = d
              /\ r.out[i].payload.fromName = peers[d].clientName
              /\ r.out[i].payload.text = text
              /\ r.out[n + i].to = members[i].clientId
              /\ r.out[n + i].type = "STATE_SNAPSHOT"
              /\ r.out[n + i].payload.snapshot.chat # <<>>
              /\ r.out[n + i].payload.snapshot.chat[Len(r.out[n + i].payload.snapshot.chat)]
                   = r.out[i].payload

----------------------------------------------------------------------------
(* Send specification: the peer operations at any time, through an OPEN     *)
(* socket or not. elect.queue[d] holds the frames the peer on d keeps for   *)
(* later, elect.dropped the operations send refused                         *)

send_queue(ws, queue, message) ==
  IF ws.readyState # "OPEN" THEN [wire |-> <<>>, queue |-> Append(queue, message)]
  ELSE [wire |-> <<message>>, queue |-> queue]

\* PeerNode.send: the frames written to the socket and the frames kept
send(ws, queue, message) ==
  IF ws.readyState # "OPEN" THEN [wire |-> <<>>, queue |-> queue]
  ELSE [wire |-> <<message>>, queue |-> queue]

\* PeerNode.createRoom / joinRoom / sendChat and the "/kick" line
Operations ==
  {[type |-> "CREATE_ROOM", payload |-> [roomName |-> "My Awesome Room"]]}
  \cup {[type |-> "JOIN_ROOM", payload |-> [joinCode |-> code]] :
          code \in LiveCodes(servers) \cup {BadCode}}
  \cup {[type |-> "CHAT", payload |-> [text |-> text]] : text \in Texts}
  \cup {[type |-> "KICK", payload |-> [targetDeviceId |-> t]] : t \in Devices}

\* the devices whose user issues operations at any time
SendDevices == {"dev-B"}

InitSend ==
  /\ servers = [d \in Devices |-> ServerDown]
  /\ peers = [d \in Devices |-> NewPeer(d)]
  /\ nextClient = 0
  /\ nextRoom = 0
  /\ outbox = <<>>
  /\ sent = EmptyMap
  /\ now = 0
  /\ elect = [dropped |-> {}, queue |-> [d \in Devices |-> <<>>]]

\* handleIncomingMessage of the coordinator on device h for a frame of
\* connection c
Handle(h, c, message) ==
  CASE message.type = "CREATE_ROOM" ->
         \E stream \in Streams : CreateRoom(h, c, stream, MaxHosts)
    [] message.type = "JOIN_ROOM" -> JoinRoom(h, c, message.payload.joinCode)
    [] message.type = "CHAT" -> Chat(h, c, message.payload.text, MaxChat)
    [] message.type = "KICK" -> Kick(h, c, message.payload.targetDeviceId)

PeerSend(d, message) ==
  /\ peers[d].status = "running"
  /\ LET r == send(peers[d].ws, elect.queue[d], message)
     IN IF r.wire = <<>>
        THEN /\ Cardinality(elect.dropped) < MaxDrops
             /\ <<d, message.type>> \notin elect.dropped
             /\ elect' = [dropped |-> elect.dropped \cup {<<d, message.type>>},
                          queue |-> [elect.queue EXCEPT ![d] = r.queue]]
             /\ outbox' = <<>>
             /\ UNCHANGED <<servers, peers, nextClient, nextRoom, sent, now>>
        ELSE Handle(peers[d].ws.to, peers[d].ws.conn, r.wire[1])

NextSend ==
  \/ \E stream \in Streams : StartHost(CoordHost, stream)
  \/ \E d \in Devices \ {CoordHost}, h \in Devices, code \in LiveCodes(servers) \cup {BadCode} :
       StartJoin(d, h, code)
  \/ \E d \in SendDevices : \E message \in Operations : PeerSend(d, message)
  \/ \E d \in Devices : Kill(d)
  \/ \E d \in Devices : PeerOnClose(d)
  \/ \E d \in Devices : MigrationTimeout(d)
  \/ \E a \in Devices, d \in Devices : AnnounceDeliver(a, d)

SpecSend == InitSend /\ [][NextSend]_vars

\* the peer on device d was refused an operation
Dropped(d) == \E op \in elect.dropped : op[1] = d

\* C22: a step in which send refuses an operation of a peer whose socket is
\* not OPEN writes no frame, keeps no frame for later and changes neither a
\* coordinator nor a peer; and the step in which such a peer's socket opens
\* again brings the coordinator the HELLO only (it answers WELCOME, its rooms
\* are as before).
C22_DroppedNeverDelivered ==
  [][\A d \in Devices :
       /\ (\E op \in elect'.dropped \ elect.dropped : op[1] = d)
            => /\ ~CanSend(d)
               /\ elect'.queue[d] = <<>>
               /\ outbox' = <<>>
               /\ servers' = servers
               /\ peers' = peers
       /\ (Dropped(d) /\ ~CanSend(d) /\ CanSend(d)')
            => /\ elect'.queue[d] = <<>>
               /\ outbox' = <<Frame(peers'[d].ws.conn, "WELCOME",
                                    [clientId |-> peers'[d].ws.conn])>>
               /\ servers'[peers'[d].ws.to].roomManager
                    = servers[peers'[d].ws.to].roomManager]_vars

\* a peer that was refused an operation has reconnected
C22_Witness ==
  \E d \in Devices :
    /\ Dropped(d)
    /\ CanSend(d)
    /\ peers[d].lastLoss.lost # None
    /\ outbox = <<Frame(peers[d].ws.conn, "WELCOME", [clientId |-> peers[d].ws.conn])>>

\* C23: on a coordinator started by a migration, the member record of a
\* device that has reconnected and sent HELLO carries the clientId of the
\* device's new connection (the one broadcastRoomState sends to).
C23_ReconnectedMemberClientId ==
  \A d \in Devices, h \in Devices :
    (/\ Migrated(h) /\ h # d
     /\ CanSend(d) /\ peers[d].ws.to = h /\ Connected(h, peers[d].ws.conn)
     /\ servers[h].connectedClients[peers[d].ws.conn].deviceId = d
     /\ peers[d].lastLoss.lost # None)
    => \A i \in 1..Len(servers[h].roomManager.rooms) :
         \A k \in 1..Len(servers[h].roomManager.rooms[i].members) :
           servers[h].roomManager.rooms[i].members[k].deviceId = d
             => servers[h].roomManager.rooms[i].members[k].clientId = peers[d].ws.conn

----------------------------------------------------------------------------
(* Restored-coordinator specification: the coordinator on dev-A after a     *)
(* migration, reached by the devices of its restored member list            *)

\* the coordinator of the lost host dev-C when it was lost: room-1 with the
\* members dev-C (host), dev-A and dev-B on connections client-1..client-3
LostCoordinator ==
  LET Joined(s, c, d) ==
        HandleJoinRoom(HandleHello(OnConnection(s, c), c, d, ClientNameOf(d)).srv,
                       c, CodeOf(ChatStream[1])).srv
      created == HandleCreateRoom(
                   HandleHello(OnConnection(NewServer, ClientIdOf(1)), ClientIdOf(1),
                               "dev-C", ClientNameOf("dev-C")).srv,
                   ClientIdOf(1), RoomIdOf(1), ChatStream).srv
  IN Joined(Joined(created, ClientIdOf(2), "dev-A"), ClientIdOf(3), "dev-B")

\* becomeHostAfterMigration of the peer on dev-A with the last snapshot of
\* the lost coordinator
InitRestored ==
  /\ servers = [d \in Devices |->
       IF d = CoordHost
       THEN [NewServer EXCEPT !.roomManager =
               restoreRoomFromSnapshot(@,
                 RoomManager_makeSnapshot(LostCoordinator.roomManager, RoomIdOf(1)).room)]
       ELSE ServerDown]
  /\ peers = [d \in Devices |-> NewPeer(d)]
  /\ nextClient = 3
  /\ nextRoom = 1
  /\ outbox = <<>>
  /\ sent = EmptyMap
  /\ now = 0
  /\ elect = NoElect

RestoredConnect == Connect(CoordHost, 3 + MaxClients)

\* the HELLO of a reconnecting device is the first frame of its connection
RestoredHello ==
  \E c \in DOMAIN servers[CoordHost].connectedClients, d \in Devices \ {CoordHost} :
    /\ servers[CoordHost].connectedClients[c].deviceId = None
    /\ \A x \in DOMAIN servers[CoordHost].connectedClients :
         servers[CoordHost].connectedClients[x].deviceId # d
    /\ Hello(CoordHost, c, d, ClientNameOf(d))

RestoredKick ==
  \E c \in DOMAIN servers[CoordHost].connectedClients, d \in Devices : Kick(CoordHost, c, d)

RestoredClose ==
  \E c \in DOMAIN servers[CoordHost].connectedClients : Close(CoordHost, c)

NextRestored ==
  \/ RestoredConnect
  \/ RestoredHello
  \/ RestoredKick
  \/ RestoredClose

SpecRestored == InitRestored /\ [][NextRestored]_vars

\* the rooms of the coordinator on device h after the step that the step
\* created or changed
Mutated(h) ==
  {i \in 1..Len(servers'[h].roomManager.rooms) :
     \A k \in 1..Len(servers[h].roomManager.rooms) :
       servers[h].roomManager.rooms[k] # servers'[h].roomManager.rooms[i]}

\* the connections of the coordinator on device h after the step that are
\* bound to deviceId d
BoundTo(h, d) ==
  {c \in DOMAIN servers'[h].connectedClients : servers'[h].connectedClients[c].deviceId = d}

\* C24: a step of a running coordinator that creates or changes a room writes,
\* for every member of that room whose device has a connection to the
\* coordinator, a STATE_SNAPSHOT of the room as it is after the step to a
\* connection of that device.
C24_SnapshotAfterMutation ==
  [][\A h \in Devices :
       (servers[h].up /\ servers'[h].up) =>
         \A i \in Mutated(h) :
           LET room == servers'[h].roomManager.rooms[i]
           IN \A k \in 1..Len(room.members) :
                BoundTo(h, room.members[k].deviceId) # {} =>
                  \E j \in 1..Len(outbox') :
                    /\ outbox'[j].type = "STATE_SNAPSHOT"
                    /\ outbox'[j].to \in BoundTo(h, room.members[k].deviceId)
                    /\ outbox'[j].payload.snapshot
                         = RoomManager_makeSnapshot(servers'[h].roomManager, room.roomId)]_vars

----------------------------------------------------------------------------
(* Abandoned migration                                                      *)

\* the peer on device d runs with nothing started: no socket OPEN, no
\* coordinator, no announcer, no discoverer, no timer armed
Idle(d) ==
  /\ peers[d].status = "running"
  /\ ~CanSend(d)
  /\ ~servers[d].up
  /\ ~peers[d].announce.socket
  /\ ~peers[d].discovery.socket
  /\ peers[d].migrationTimeout = 0

\* the peer on device d is about to handle the close event of its socket
\* with no cached snapshot or no learned clientId
LosesUnprepared(d) ==
  /\ peers[d].status = "running"
  /\ peers[d].closePending
  /\ ~peers[d].isHandlingServerLoss
  /\ peers[d].latestSnapshot = NullSnapshot \/ peers[d].clientId = None

\* C25: the step in which a peer handles the loss of its coordinator with no
\* cached snapshot or no learned clientId changes no coordinator and leaves
\* the peer with nothing started (no OPEN socket, coordinator, announcer,
\* discoverer or timer), and the peer stays so for as long as it runs.
C25_AbandonedMigration ==
  [][\A d \in Devices :
       /\ (LosesUnprepared(d) /\ peers'[d].status = "running" /\ ~peers'[d].closePending)
            => /\ servers' = servers
               /\ Idle(d)'
               /\ peers'[d].phase = "Dead"
       /\ (peers[d].phase = "Dead" /\ Idle(d) /\ peers'[d].status = "running")
            => (peers'[d].phase = "Dead" /\ Idle(d)')]_vars

\* a peer has abandoned a migration while another device runs a coordinator
\* and announces it
C25_Witness ==
  \E d \in Devices, h \in Devices :
    /\ peers[d].phase = "Dead" /\ Idle(d)
    /\ peers[d].latestSnapshot = NullSnapshot
    /\ peers[d].lastLoss.lost # None
    /\ h # d /\ servers[h].up /\ peers[h].announce.socket

----------------------------------------------------------------------------
(* Awaiting-Host                                                            *)

\* the peer on device d waits for a new host: discovery runs, the timer is
\* armed
AwaitingHost(d) ==
  /\ peers[d].status = "running"
  /\ peers[d].isHandlingServerLoss
  /\ peers[d].discovery.socket
  /\ peers[d].migrationTimeout > 0

\* the announcements a discoverer may receive from address ip: of the room
\* the peer on d has cached and of another room
Announcements(d) ==
  {[roomId |-> roomId, joinCode |-> peers[d].joinCode, hostId |-> ClientIdOf(1), port |-> 8080] :
     roomId \in {RoomIdOf(1), RoomIdOf(2)}}

\* C26: for a peer in Awaiting-Host, the first announcement of a host at
\* address ip with the cached roomId stops discovery, cancels the timer,
\* sets the server URL to that address and opens a new socket to it (HELLO
\* and WELCOME on a new connection when a coordinator listens there, a close
\* event when none does); the first announcement with another roomId changes
\* nothing but the table of discovered hosts: discovery runs on, the timer
\* stays armed, the socket and the server URL are as before.
C26_DiscoveredHost ==
  \A d \in Devices, ip \in Devices :
    AwaitingHost(d) /\ <<ip, 8080>> \notin peers[d].discovery.discoveredHosts =>
      \A host \in Announcements(d) :
        LET c == ClientIdOf(nextClient + 1)
            r == onAnnouncement(servers, peers, d, ip, host, c)
        IN IF host.roomId = peers[d].roomId
           THEN /\ ~r.peers[d].discovery.socket
                /\ r.peers[d].migrationTimeout = 0
                /\ r.peers[d].serverUrl = ip
                /\ r.peers[d].ws.to = ip
                /\ ~r.peers[d].isHandlingServerLoss
                /\ IF servers[ip].up
                   THEN /\ r.peers[d].ws = [to |-> ip, conn |-> c, readyState |-> "OPEN"]
                        /\ r.peers[d].clientId = c
                        /\ r.servers[ip].connectedClients[c]
                             = [deviceId |-> d, name |-> peers[d].clientName]
                        /\ r.servers[ip].roomManager = servers[ip].roomManager
                   ELSE /\ r.peers[d].ws.readyState = "CLOSED"
                        /\ r.peers[d].closePending
                        /\ r.servers = servers
           ELSE /\ r.servers = servers
                /\ r.peers = [peers EXCEPT ![d].discovery.discoveredHosts = @ \cup {<<ip, 8080>>}]
                /\ AwaitingHost(d)

\* a peer in Awaiting-Host has not yet heard the host that announces the
\* room it has cached
C26_Witness ==
  \E d \in Devices, ip \in Devices :
    /\ AwaitingHost(d)
    /\ peers[d].roomId = RoomIdOf(1)
    /\ <<ip, 8080>> \notin peers[d].discovery.discoveredHosts
    /\ servers[ip].up /\ peers[ip].announce.socket
    /\ peers[ip].announce.message.roomId = peers[d].roomId

\* the step starts a coordinator on device d
BecomesHost(d) == peers'[d].hostStarts > peers[d].hostStarts

\* the step gives the peer on device d a new socket
Reconnects(d) == peers'[d].ws # peers[d].ws

\* C27: a timer is armed only in Awaiting-Host. The step in which the timer
\* of a peer in Awaiting-Host fires stops discovery and starts the peer's
\* coordinator (Becoming-Host) without opening a socket; the step in which
\* the peer reconnects to a discovered host disarms the timer and starts no
\* coordinator; and a step that ends Awaiting-Host of a running peer is one
\* of the two, never both.
C27_TimeoutOrReconnect ==
  [][\A d \in Devices :
       /\ peers[d].migrationTimeout > 0 => AwaitingHost(d) /\ peers[d].migrationTimeout = 1
       /\ (AwaitingHost(d) /\ BecomesHost(d))
            => /\ ~Reconnects(d)
               /\ peers'[d].migrationTimeout = 0
               /\ ~peers'[d].discovery.socket
               /\ peers'[d].phase = "BecomingHost"
               /\ servers'[d].up
       /\ (AwaitingHost(d) /\ Reconnects(d))
            => /\ ~BecomesHost(d)
               /\ peers'[d].migrationTimeout = 0
               /\ ~peers'[d].discovery.socket
               /\ servers'[d] = servers[d]
       /\ (AwaitingHost(d) /\ ~AwaitingHost(d)' /\ peers'[d].status = "running")
            => (BecomesHost(d) /\ ~Reconnects(d)) \/ (Reconnects(d) /\ ~BecomesHost(d))]_vars

\* one peer became host on its timer while another reconnected to it
C27_Witness ==
  \E d \in Devices, h \in Devices :
    /\ h # d
    /\ peers[h].hostStarts = 1 /\ servers[h].up /\ peers[h].phase = "BecomingHost"
    /\ peers[d].lastLoss.lost # None /\ CanSend(d) /\ peers[d].ws.to = h
    /\ peers[d].hostStarts = 0

\* C28: a peer that lost the coordinator of host A and started its own
\* announces the cached roomId and joinCode with its own clientId as hostId,
\* not the clientId of the lost host.
C28_AnnouncesOwnClientId ==
  \A d \in Devices, A \in Devices :
    (LostServer(d, A) /\ Migrated(d)) =>
      /\ peers[d].announce.socket
      /\ peers[d].announce.message.roomId = peers[d].latestSnapshot.room.roomId
      /\ peers[d].announce.message.joinCode = peers[d].latestSnapshot.room.joinCode
      /\ peers[d].announce.message.hostId = peers[d].clientId

----------------------------------------------------------------------------
(* Announcer specification: the udpAnnounce module of one process.          *)
(* elect.announce is the module state, elect.sent the datagrams sent so     *)
(* far, elect.given the payload of the start call that opened the socket    *)

AnnouncePayloads ==
  {[roomId |-> roomId, joinCode |-> joinCode, hostId |-> hostId, port |-> 8080] :
     roomId \in {RoomIdOf(1), RoomIdOf(2)}, joinCode \in {BadCode, CodeOf(ChatStream[1])},
     hostId \in {ClientIdOf(1), ClientIdOf(2)}}

InitAnnounce ==
  /\ servers = [d \in Devices |-> ServerDown]
  /\ peers = [d \in Devices |-> NewPeer(d)]
  /\ nextClient = 0
  /\ nextRoom = 0
  /\ outbox = NotRecorded
  /\ sent = EmptyMap
  /\ now = 0
  /\ elect = [announce |-> NoAnnounce, sent |-> <<>>, given |-> NoAnnounce.message]

AnnounceStart(m) ==
  /\ elect' = [elect EXCEPT
       !.announce = startAnnounce(@, m.roomId, m.joinCode, m.hostId, m.port),
       !.given = IF elect.announce.socket THEN @ ELSE m]
  /\ UNCHANGED <<servers, peers, nextClient, nextRoom, outbox, sent, now>>

AnnounceStop ==
  /\ elect' = [elect EXCEPT !.announce = stopAnnounce(@), !.given = NoAnnounce.message]
  /\ UNCHANGED <<servers, peers, nextClient, nextRoom, outbox, sent, now>>

\* 3 s pass
AnnounceTick ==
  /\ Len(elect.sent) < MaxDatagrams
  /\ elect' = [elect EXCEPT !.sent = @ \o announceTick(elect.announce)]
  /\ UNCHANGED <<servers, peers, nextClient, nextRoom, outbox, sent, now>>

NextAnnounce ==
  \/ \E m \in AnnouncePayloads : AnnounceStart(m)
  \/ AnnounceStop
  \/ AnnounceTick

SpecAnnounce == InitAnnounce /\ [][NextAnnounce]_vars

\* C29: a start call while the announcer is active changes nothing; every
\* datagram sent carries the payload given to the start call that opened the
\* socket; and while the announcer is stopped no datagram is sent.
C29_OneAnnouncer ==
  [][/\ (elect.announce.socket /\ elect'.announce.socket)
          => elect'.announce = elect.announce
     /\ elect.announce.socket => elect.announce.message = elect.given
     /\ elect'.sent # elect.sent
          => /\ elect.announce.socket
             /\ elect'.sent = Append(elect.sent, elect.given)
     /\ ~elect.announce.socket => elect.announce = NoAnnounce]_vars

\* an announcer that was started, sent a datagram, was stopped and started
\* again with another payload has sent a datagram of each payload
C29_Witness ==
  /\ elect.announce.socket
  /\ Len(elect.sent) = 2
  /\ elect.sent[1] # elect.sent[2]
  /\ elect.sent[2] = elect.given

\* the connections of the running coordinator on device h that the step
\* closes, each bound to a deviceId that is a member of a room
ClosedMembers(h) ==
  {c \in DOMAIN servers[h].connectedClients \ DOMAIN servers'[h].connectedClients :
     /\ servers[h].connectedClients[c].deviceId # None
     /\ findRoomByDevice(servers[h].roomManager, servers[h].connectedClients[c].deviceId) # None}

\* C30: a step in which a connection of a running coordinator closes that is
\* bound to the deviceId of a room member leaves the room without a member
\* of that deviceId and the connection table without the clientId, and, when
\* the room survives, writes a STATE_SNAPSHOT of the room as it now is,
\* without that member, to every remaining member whose device has a
\* connection to the coordinator.
C30_CloseLeavesRoom ==
  [][\A h \in Devices :
       (servers[h].up /\ servers'[h].up) =>
         \A c \in ClosedMembers(h) :
           LET d == servers[h].connectedClients[c].deviceId
               roomId == findRoomByDevice(servers[h].roomManager, d)
               after == servers'[h].roomManager
           IN hasRoom(after, roomId) =>
                /\ ~hasMember(getRoom(after, roomId), d)
                /\ \A k \in 1..Len(getRoom(after, roomId).members) :
                     BoundTo(h, getRoom(after, roomId).members[k].deviceId) # {} =>
                       \E j \in 1..Len(outbox') :
                         /\ outbox'[j].type = "STATE_SNAPSHOT"
                         /\ outbox'[j].to
                              \in BoundTo(h, getRoom(after, roomId).members[k].deviceId)
                         /\ outbox'[j].payload.snapshot = RoomManager_makeSnapshot(after, roomId)
                         /\ ~hasMember(outbox'[j].payload.snapshot.room, d)]_vars

----------------------------------------------------------------------------
(* Membership specification: one coordinator; any connection identifies as  *)
(* any device under any of three names, creates, joins, kicks and closes    *)

MemberNames == {"Alice", "Bob", "bob"}

MemberConnect == Connect(CoordHost, MaxClients)
MemberHello ==
  \E c \in ClientIds, d \in CoordDevices, n \in MemberNames : Hello(CoordHost, c, d, n)
MemberCreateRoom ==
  \E c \in ClientIds, stream \in Streams : CreateRoom(CoordHost, c, stream, MaxRooms)
MemberJoinRoom ==
  \E c \in ClientIds, code \in LiveCodes(servers) \cup {BadCode} : JoinRoom(CoordHost, c, code)
MemberKick == \E c \in ClientIds, d \in CoordDevices : Kick(CoordHost, c, d)
MemberClose == \E c \in ClientIds : Close(CoordHost, c)

NextMember ==
  \/ MemberConnect
  \/ MemberHello
  \/ MemberCreateRoom
  \/ MemberJoinRoom
  \/ MemberKick
  \/ MemberClose

SpecMember == InitCoord /\ [][NextMember]_vars

\* the member at position i is first in members by joinOrder ascending, then
\* hash(deviceId) ascending
FirstByOrder(members, i) ==
  \A j \in 1..Len(members) :
    \/ members[i].joinOrder < members[j].joinOrder
    \/ /\ members[i].joinOrder = members[j].joinOrder
       /\ HashDiff(hash(members[i].deviceId), hash(members[j].deviceId)) <= 0

\* C31: when the host member leaves a room that still has other members,
\* leaveRoom makes the remaining member that is first by (joinOrder, hash of
\* deviceId) the host: hostDeviceId is its deviceId, its role is host and the
\* role of every other remaining member is member; when a non-host leaves,
\* hostDeviceId and the remaining members with their roles are unchanged.
C31_LeaveElectsFirst ==
  \A h \in Devices, d \in Devices :
    LET rm == servers[h].roomManager
        roomId == findRoomByDevice(rm, d)
    IN (servers[h].up /\ roomId # None) =>
         LET before == getRoom(rm, roomId)
             rest == SelectSeq(before.members, LAMBDA m : m.deviceId # d)
             r == leaveRoom(rm, d)
         IN Len(rest) > 0 =>
              /\ r.roomId = roomId
              /\ hasRoom(r.rm, roomId)
              /\ LET after == getRoom(r.rm, roomId)
                 IN IF before.hostDeviceId = d
                    THEN \E i \in 1..Len(rest) :
                           /\ FirstByOrder(rest, i)
                           /\ after.hostDeviceId = rest[i].deviceId
                           /\ after.members =
                                [j \in 1..Len(rest) |->
                                   [rest[j] EXCEPT !.role =
                                      IF j = i THEN "host" ELSE "member"]]
                    ELSE /\ after.hostDeviceId = before.hostDeviceId
                         /\ after.members = rest

\* every member of the room is of device d: d leaving empties the room
SoleDevice(room, d) ==
  /\ Len(room.members) > 0
  /\ \A i \in 1..Len(room.members) : room.members[i].deviceId = d

\* C32: when the last member leaves a room, leaveRoom returns null, the room
\* is gone from the room table and its join code from the join-code table,
\* and a JOIN_ROOM with that code that an identified connection sends
\* afterwards is answered with ERROR INVALID_JOIN_CODE and changes nothing.
C32_LastLeaveDestroysRoom ==
  \A h \in Devices, d \in Devices :
    LET s == servers[h]
        rm == s.roomManager
        roomId == findRoomByDevice(rm, d)
    IN (s.up /\ roomId # None /\ SoleDevice(getRoom(rm, roomId), d)) =>
         LET room == getRoom(rm, roomId)
             r == leaveRoom(rm, d)
             s1 == [s EXCEPT !.roomManager = r.rm]
         IN /\ r.roomId = None
            /\ ~hasRoom(r.rm, roomId)
            /\ room.joinCode \notin DOMAIN r.rm.joinCodeToRoomId
            /\ \A c \in DOMAIN s.connectedClients :
                 Identified(s, c) =>
                   LET j == HandleJoinRoom(s1, c, room.joinCode)
                   IN /\ j.out = sendErrorMessage(c, "INVALID_JOIN_CODE")
                      /\ j.srv = s1
                      /\ ~j.threw

\* the only member of the only room has left: the coordinator holds no room
\* and no join code, and an identified connection is still open
C32_Witness ==
  /\ nextRoom = 1
  /\ servers[CoordHost].up
  /\ servers[CoordHost].roomManager.rooms = <<>>
  /\ servers[CoordHost].roomManager.joinCodeToRoomId = EmptyMap
  /\ servers[CoordHost].roomManager.globalJoinCounter > 0
  /\ \E c \in DOMAIN servers[CoordHost].connectedClients : Identified(servers[CoordHost], c)

----------------------------------------------------------------------------
(* Heartbeat specification: the coordinator holds the room its host         *)
(* created; connections open, identify, join and answer PING or stay        *)
(* silent while the clock moves in steps of half a heartbeat interval       *)

HalfBeat == HEARTBEAT_INTERVAL_MS \div 2

\* lastActiveTime: the field of each ClientConnection; pings: the times of
\* the PINGs a connection has not answered; late: the connections that left
\* a PING unanswered until the tick CLIENT_TIMEOUT_MS after it; terminated:
\* sockets terminated whose close event is pending; byHeartbeat: every
\* connection the heartbeat closed; ticked: the interval callback has run at
\* the present instant (or is not due)
InitBeat ==
  /\ servers = [d \in Devices |->
       IF d = CoordHost
       THEN HandleCreateRoom(
              HandleHello(OnConnection(NewServer, ChatClient), ChatClient,
                          CoordHost, ClientNameOf(CoordHost)).srv,
              ChatClient, RoomIdOf(1), ChatStream).srv
       ELSE ServerDown]
  /\ peers = [d \in Devices |-> NewPeer(d)]
  /\ nextClient = 1
  /\ nextRoom = 1
  /\ outbox = <<>>
  /\ sent = EmptyMap
  /\ now = 0
  /\ elect = [lastActiveTime |-> (ChatClient :> 0), pings |-> (ChatClient :> {}),
              late |-> {}, terminated |-> EmptyMap, byHeartbeat |-> {}, ticked |-> TRUE]

\* the connections of the heartbeat specification: the host's and one more
BeatClients == {ClientIdOf(1), ClientIdOf(2)}

\* a connection opens: new ClientConnection, lastActiveTime = Date.now()
BeatConnect ==
  /\ ClientIdOf(nextClient + 1) \in BeatClients
  /\ nextClient' = nextClient + 1
  /\ ServerStep(CoordHost, Result(OnConnection(servers[CoordHost], ClientIdOf(nextClient + 1)), <<>>))
  /\ elect' = [elect EXCEPT !.lastActiveTime = MapPut(@, ClientIdOf(nextClient + 1), now),
                            !.pings = MapPut(@, ClientIdOf(nextClient + 1), {})]
  /\ UNCHANGED <<nextRoom, sent, now>>

\* a valid frame of connection c is handled with result r: updateLastSeen
BeatFrame(c, r, pings) ==
  /\ Connected(CoordHost, c)
  /\ ServerStep(CoordHost, r)
  /\ elect' = [elect EXCEPT !.lastActiveTime[c] = now, !.pings[c] = pings]
  /\ UNCHANGED <<nextClient, nextRoom, sent, now>>

BeatHello ==
  \E c \in BeatClients, d \in SendDevices :
    /\ Connected(CoordHost, c)
    /\ ~Identified(servers[CoordHost], c)
    /\ BeatFrame(c, HandleHello(servers[CoordHost], c, d, ClientNameOf(d)), elect.pings[c])

BeatJoinRoom ==
  \E c \in BeatClients, code \in LiveCodes(servers) :
    /\ Connected(CoordHost, c)
    /\ servers[CoordHost].roomManager.globalJoinCounter < MaxJoins
    /\ BeatFrame(c, HandleJoinRoom(servers[CoordHost], c, code), elect.pings[c])

\* connection c answers the oldest PING it has not answered
BeatPong ==
  \E c \in BeatClients :
    /\ Connected(CoordHost, c)
    /\ elect.pings[c] # {}
    /\ BeatFrame(c, Result(servers[CoordHost], <<>>), elect.pings[c] \ {Min(elect.pings[c])})

\* the interval callback runs
BeatTick ==
  /\ ~elect.ticked
  /\ LET r == startHeartbeatLoop(servers[CoordHost], elect.lastActiveTime, now, nextClient)
         pinged == {r.out[i].to : i \in 1..Len(r.out)}
     IN /\ ServerStep(CoordHost, Result(r.srv, r.out))
        /\ elect' = [elect EXCEPT
             !.ticked = TRUE,
             !.terminated = [c \in DOMAIN @ \cup DOMAIN r.terminated |->
                               IF c \in DOMAIN r.terminated THEN r.terminated[c] ELSE @[c]],
             !.byHeartbeat = @ \cup DOMAIN r.terminated,
             !.late = @ \cup {c \in DOMAIN servers[CoordHost].connectedClients :
                                \E p \in elect.pings[c] : now - p >= CLIENT_TIMEOUT_MS},
             !.pings = [c \in DOMAIN @ |-> IF c \in pinged THEN @[c] \cup {now} ELSE @[c]]]
  /\ UNCHANGED <<nextClient, nextRoom, sent, now>>

\* the close event of a terminated socket
BeatClose ==
  \E c \in DOMAIN elect.terminated :
    /\ ServerStep(CoordHost, OnTerminated(servers[CoordHost], c, elect.terminated[c]))
    /\ elect' = [elect EXCEPT !.terminated = MapDel(@, c)]
    /\ UNCHANGED <<nextClient, nextRoom, sent, now>>

\* the clock moves on once the callbacks due at the present instant have run
BeatClock ==
  /\ now < MaxBeats * HalfBeat
  /\ elect.ticked
  /\ elect.terminated = EmptyMap
  /\ now' = now + HalfBeat
  /\ elect' = [elect EXCEPT !.ticked = ((now + HalfBeat) % HEARTBEAT_INTERVAL_MS # 0)]
  /\ UNCHANGED <<servers, peers, nextClient, nextRoom, outbox, sent>>

NextBeat ==
  \/ BeatConnect
  \/ BeatHello
  \/ BeatJoinRoom
  \/ BeatPong
  \/ BeatTick
  \/ BeatClose
  \/ BeatClock

SpecBeat == InitBeat /\ [][NextBeat]_vars

\* the frames of the step that go to connection c
FramesTo(c) == SelectSeq(outbox', LAMBDA f : f.to = c)

----------------------------------------------------------------------------
(* Snapshot cache of a peer                                                 *)

\* the STATE_SNAPSHOT frames of the step that the peer on device d receives
SnapshotsTo(d) ==
  SelectSeq(outbox', LAMBDA f : f.type = "STATE_SNAPSHOT" /\ Receives(peers'[d], f.to))

\* C34: after a step in which a peer receives STATE_SNAPSHOT its cached
\* snapshot is the last one received, and roomId, joinCode and hostClientId
\* are that snapshot's roomId, joinCode and the clientId its identity table
\* gives for its hostDeviceId; when that hostDeviceId is the peer's device
\* the announcer runs afterwards (started with these values when it did not
\* run before), otherwise the announcer is as it was; a running peer that
\* receives no snapshot keeps its cached snapshot.
C34_SnapshotReplacesCache ==
  [][\A d \in Devices :
       LET got == SnapshotsTo(d)
       IN IF got # <<>>
          THEN LET snapshot == got[Len(got)].payload.snapshot
                   host == snapshot.room.hostDeviceId
                   table == snapshot.identity.deviceIdToClientId
               IN /\ peers'[d].latestSnapshot = snapshot
                  /\ peers'[d].roomId = snapshot.room.roomId
                  /\ peers'[d].joinCode = snapshot.room.joinCode
                  /\ peers'[d].hostClientId = IF host \in DOMAIN table THEN table[host] ELSE None
                  /\ IF host = d
                     THEN /\ peers'[d].announce.socket
                          /\ ~peers[d].announce.socket =>
                               peers'[d].announce.message =
                                 [roomId |-> snapshot.room.roomId,
                                  joinCode |-> snapshot.room.joinCode,
                                  hostId |-> table[host], port |-> 8080]
                     ELSE peers'[d].announce = peers[d].announce
          ELSE (peers[d].status = "running" /\ peers'[d].status = "running") =>
                 peers'[d].latestSnapshot = peers[d].latestSnapshot]_vars

\* a joined peer holds a snapshot that lists a chat message, so it has
\* received a second snapshot after the one of its join, and it is not the
\* host and announces nothing; the host of that snapshot announces
C34_Witness ==
  \E d \in Devices, h \in Devices :
    /\ d # h
    /\ Receives(peers[d], peers[d].ws.conn)
    /\ peers[d].latestSnapshot # NullSnapshot
    /\ peers[d].latestSnapshot.room.hostDeviceId = h
    /\ Len(peers[d].latestSnapshot.chat) > 0
    /\ ~peers[d].announce.socket
    /\ peers[h].announce.socket
    /\ peers[h].latestSnapshot = peers[d].latestSnapshot

----------------------------------------------------------------------------
(* Audience specification: one coordinator with two rooms, each with its    *)
(* host, and a third identified connection that is in no room; the third    *)
(* joins either room, anyone chats, kicks, and the third may close          *)

AudienceClients == {ClientIdOf(1), ClientIdOf(2), ClientIdOf(3)}

\* the random bytes the join code of the second room is drawn from
AudienceStream == <<<<36, 72, 108, 144, 180, 216>>, <<255, 35, 26, 25, 0, 36>>>>

\* the connection of device d has opened and sent HELLO
Arrives(s, c, d) == HandleHello(OnConnection(s, c), c, d, ClientNameOf(d)).srv

InitAudience ==
  /\ servers = [d \in Devices |->
       IF d = CoordHost
       THEN Arrives(
              HandleCreateRoom(
                Arrives(
                  HandleCreateRoom(Arrives(NewServer, ClientIdOf(1), "dev-A"),
                                   ClientIdOf(1), RoomIdOf(1), ChatStream).srv,
                  ClientIdOf(2), "dev-B"),
                ClientIdOf(2), RoomIdOf(2), AudienceStream).srv,
              ClientIdOf(3), "dev-C")
       ELSE ServerDown]
  /\ peers = [d \in Devices |-> NewPeer(d)]
  /\ nextClient = 3
  /\ nextRoom = 2
  /\ outbox = <<>>
  /\ sent = EmptyMap
  /\ now = 0
  /\ elect = NoElect

AudienceJoinRoom == \E code \in LiveCodes(servers) : JoinRoom(CoordHost, ClientIdOf(3), code)
AudienceChat == \E c \in AudienceClients, text \in Texts : Chat(CoordHost, c, text, MaxChat)
AudienceKick == \E c \in AudienceClients, d \in Devices : Kick(CoordHost, c, d)
AudienceClose == Close(CoordHost, ClientIdOf(3))

NextAudience ==
  \/ AudienceJoinRoom
  \/ AudienceChat
  \/ AudienceKick
  \/ AudienceClose

SpecAudience == InitAudience /\ [][NextAudience]_vars

\* connection c is the clientId of a member of the room
MemberClient(room, c) == \E k \in 1..Len(room.members) : room.members[k].clientId = c

\* C35: every CHAT frame and every STATE_SNAPSHOT frame a step writes goes
\* to a connection whose clientId is that of a member, after the step, of the
\* room the frame is of (the room of the snapshot; the room whose chat buffer
\* ends with the message); so a connection in another room, in no room, or
\* whose member was kicked gets neither.
C35_FramesOnlyToMembers ==
  [][\A i \in 1..Len(outbox') :
       outbox'[i].type \in {"CHAT", "STATE_SNAPSHOT"} =>
         \E h \in Devices :
           \E r \in 1..Len(servers'[h].roomManager.rooms) :
             LET room == servers'[h].roomManager.rooms[r]
             IN /\ servers'[h].up
                /\ MemberClient(room, outbox'[i].to)
                /\ IF outbox'[i].type = "STATE_SNAPSHOT"
                   THEN outbox'[i].payload.snapshot
                          = RoomManager_makeSnapshot(servers'[h].roomManager, room.roomId)
                   ELSE /\ hasChat(room)
                        /\ Len(room.chat) > 0
                        /\ room.chat[Len(room.chat)] = outbox'[i].payload]_vars

\* the third connection joined room-1 and was kicked from it; then the host
\* of room-1 chatted: the CHAT and the snapshot went to the host alone, while
\* the kicked connection and the host of room-2 are still connected
C35_Witness ==
  LET s == servers[CoordHost]
  IN /\ s.roomManager.globalJoinCounter = 3
     /\ DOMAIN s.connectedClients = AudienceClients
     /\ Len(s.roomManager.rooms) = 2
     /\ Len(s.roomManager.rooms[1].members) = 1
     /\ Len(s.roomManager.rooms[2].members) = 1
     /\ Len(s.roomManager.rooms[1].chat) = 1
     /\ Len(outbox) = 2
     /\ outbox[1].type = "CHAT" /\ outbox[1].to = ClientIdOf(1)
     /\ outbox[2].type = "STATE_SNAPSHOT" /\ outbox[2].to = ClientIdOf(1)

----------------------------------------------------------------------------
(* Failing operations of the room model                                     *)

\* C36: on every room manager a coordinator holds, joinRoomByCode with an
\* unknown code or a name a member of the room has, kick by a device that is
\* in no room or is not the host of its room, and appendChat from a device
\* that is not a member of the room each fail and return the room manager
\* as it was: room table, join-code table, members and chat of every room
\* and the global join counter.
C36_FailedOperationChangesNothing ==
  \A h \in Devices :
    servers[h].up =>
      LET rm == servers[h].roomManager
      IN /\ \A code \in LiveCodes(servers) \cup {BadCode}, d \in Devices, c \in AudienceClients :
              \A n \in {ClientNameOf(x) : x \in Devices} :
                LET r == joinRoomByCode(rm, code, d, c, n)
                IN IF code \notin DOMAIN rm.joinCodeToRoomId
                   THEN r.err = "INVALID_JOIN_CODE" /\ r.rm = rm
                   ELSE hasName(getRoom(rm, rm.joinCodeToRoomId[code]), n) =>
                          r.err = "NAME_CONFLICT" /\ r.rm = rm
         /\ \A a \in Devices, b \in Devices :
              LET roomId == findRoomByDevice(rm, a)
                  r == kick(rm, a, b)
              IN IF roomId = None THEN r.err = "ROOM_NOT_FOUND" /\ r.rm = rm
                 ELSE getRoom(rm, roomId).hostDeviceId # a =>
                        r.err = "NOT_HOST" /\ r.rm = rm
         /\ \A i \in 1..Len(rm.rooms), d \in Devices, text \in Texts :
              ~hasMember(rm.rooms[i], d) =>
                LET r == appendChat(rm, rm.rooms[i].roomId, d, text, now)
                IN r.err = "NOT_IN_ROOM" /\ r.rm = rm

\* room-1 holds its host and a second member and a chat message, room-2 its
\* host: a join under a taken name, a kick by the second member, a kick by
\* nobody's device and a chat from the host of the other room all fail here
C36_Witness ==
  LET rm == servers[CoordHost].roomManager
  IN /\ Len(rm.rooms) = 2
     /\ Len(rm.rooms[1].members) = 2
     /\ rm.rooms[1].members[2].deviceId # rm.rooms[1].hostDeviceId
     /\ Len(rm.rooms[1].chat) = 1
     /\ Len(rm.rooms[2].members) = 1
     /\ rm.globalJoinCounter = 3

----------------------------------------------------------------------------
(* Rooms of a device                                                        *)

\* the rooms of the coordinator on h that hold a member of device d
RoomsOf(h, d) ==
  {i \in 1..Len(servers[h].roomManager.rooms) : hasMember(servers[h].roomManager.rooms[i], d)}

\* C37: on every coordinator, each deviceId is a member of at most one room
\* the coordinator holds.
C37_OneRoomPerDevice ==
  \A h \in Devices, d \in Devices : Cardinality(RoomsOf(h, d)) <= 1

----------------------------------------------------------------------------
(* Transport specification: as the peer specification, and the transport of *)
(* a peer's open connection may close while both processes run              *)

\* the connection of the peer on device d closes: the coordinator's close
\* listener runs, the peer has a close event to handle
Drop(d) ==
  /\ Receives(peers[d], peers[d].ws.conn)
  /\ Connected(peers[d].ws.to, peers[d].ws.conn)
  /\ LET h == peers[d].ws.to
         r == HandleClose(servers[h], peers[d].ws.conn)
         prs1 == [peers EXCEPT ![d].ws.readyState = "CLOSED", ![d].closePending = TRUE]
     IN Becomes([servers |-> [servers EXCEPT ![h] = r.srv],
                 peers |-> Deliver(prs1, r.out, 1),
                 out |-> r.out])
  /\ UNCHANGED <<nextClient, nextRoom, sent, now, elect>>

NextDrop ==
  \/ Next
  \/ \E d \in Devices : Drop(d)

SpecDrop == Init /\ [][NextDrop]_vars

----------------------------------------------------------------------------
(* The loss flag after a migration                                          *)

\* the peer on device d has been through a migration and finished it
FinishedMigration(d) ==
  /\ peers[d].status = "running"
  /\ peers[d].lastLoss.lost # None
  /\ peers[d].phase \in {"Connected", "BecomingHost"}

\* C39: the step in which a peer becomes host or reconnects to a discovered
\* host leaves isHandlingServerLoss false; when a peer that finished a
\* migration handles a later close of its socket, it runs a new election and
\* starts a new migration; and a running peer whose flag is set is either
\* waiting for a host with its timer armed or has abandoned the migration.
C39_FlagResetAfterMigration ==
  [][\A d \in Devices :
       /\ ((BecomesHost(d) \/ Reconnects(d)) /\ peers'[d].status = "running")
            => ~peers'[d].isHandlingServerLoss
       /\ (FinishedMigration(d) /\ peers[d].closePending /\ ~peers'[d].closePending
             /\ peers'[d].status = "running")
            => /\ peers'[d].lastLoss = [lost |-> peers[d].ws.to,
                                        elected |-> runLeaderElection(peers[d])]
               /\ peers'[d].lastLoss.elected # None
               /\ \/ peers'[d].phase = "BecomingHost" /\ BecomesHost(d)
                  \/ AwaitingHost(d)' /\ peers'[d].isHandlingServerLoss
       /\ (peers[d].status = "running" /\ peers[d].isHandlingServerLoss)
            => AwaitingHost(d) \/ peers[d].phase = "Dead"]_vars

\* a peer that reconnected after one migration has handled the loss of its
\* second coordinator and waits for a host again, or became host itself
C39_Witness ==
  \E d \in Devices :
    /\ peers[d].status = "running"
    /\ peers[d].lastLoss.lost # None
    /\ peers[d].ws.conn = ClientIdOf(4)
    /\ peers[d].ws.readyState = "CLOSED"
    /\ ~peers[d].closePending
    /\ peers[d].lastLoss.lost = peers[d].ws.to
    /\ peers[d].phase \in {"AwaitingHost", "BecomingHost"}

----------------------------------------------------------------------------
(* A process and the coordinator it runs                                    *)

\* the process on device d runs a peer and a coordinator that listens
RunsCoordinator(d) == servers[d].up /\ peers[d].status = "running"

\* C38: a process whose coordinator listens does not start a second one:
\* when its peer handles the close event of its client connection, and when
\* its migration timer fires, the process keeps running with the coordinator
\* it had (a second listener on the port the process holds would end it).
C38_NoSecondCoordinator ==
  \A d \in Devices :
    RunsCoordinator(d) =>
      /\ peers[d].closePending =>
           LET r == onServerDisconnected(servers, [peers EXCEPT ![d].closePending = FALSE], d)
           IN r.peers[d].status = "running" /\ r.servers[d] = servers[d]
      /\ peers[d].migrationTimeout > 0 =>
           LET r == becomeHostAfterMigration(servers,
                      [peers EXCEPT ![d].migrationTimeout = @ - 1,
                                    ![d].discovery = stopDiscovery(@)], d)
           IN r.peers[d].status = "running" /\ r.servers[d] = servers[d]

----------------------------------------------------------------------------
(* Two connections of one device                                            *)

\* the device behind connection c of coordinator s has a member record that
\* was made through c
MemberThrough(s, c) ==
  LET d == s.connectedClients[c].deviceId
      roomId == findRoomByDevice(s.roomManager, d)
  IN /\ d # None
     /\ roomId # None
     /\ \E i \in 1..Len(getRoom(s.roomManager, roomId).members) :
          LET m == getRoom(s.roomManager, roomId).members[i]
          IN m.deviceId = d /\ m.clientId = c

\* C40: when a member device has a second, later connection identified with
\* the same deviceId, the close of the older connection leaves the device's
\* member record in the room.
C40_OlderCloseKeepsMember ==
  \A h \in Devices, m \in 1..MaxClients, n \in 1..MaxClients :
    LET s == servers[h]
        older == ClientIdOf(m)
        later == ClientIdOf(n)
    IN (/\ s.up /\ m < n
        /\ older \in DOMAIN s.connectedClients
        /\ later \in DOMAIN s.connectedClients
        /\ s.connectedClients[later].deviceId = s.connectedClients[older].deviceId
        /\ MemberThrough(s, older))
         => findRoomByDevice(HandleClose(s, older).srv.roomManager,
                             s.connectedClients[older].deviceId) # None

====
